---- MODULE Spec2Model ----
(***************************************************************************)
(* Route-sheet stacker (src/tools/route_stacker.py): page grouping, route  *)
(* parsing, overflow assignment, the grouped build and its result record.  *)
(*                                                                         *)
(* Text is modelled at character level: a token is a tuple of one-character*)
(* strings, a line a tuple of tokens (the result of str.split()), a page   *)
(* text a tuple of lines.  Python's None is the empty tuple for strings    *)
(* and None (= -1) for integers.  List positions are 0-based as in the     *)
(* code; the TLA+ sequence element for position i is s[i + 1].             *)
(***************************************************************************)
EXTENDS Integers, Sequences, FiniteSets, TLC

VARIABLES
    \* ---- assign_overflows(bags, overs)
    bags,               \* list of bag records (idx, sort_zone, bag, pkgs)
    overs,              \* list of <<zone, count>>
    texts,              \* texts[i]: entries attached to bag position i
    totals,             \* totals[i]
    last_assigned_bag,  \* None or a bag position
    bis,                \* value of the local bi in each finished iteration
    apc,                \* "loop" while lines remain, then "returned"
    \* ---- parse_route_page(text)
    text,               \* the argument: a tuple of lines, each a tuple of tokens
    parsed,             \* the returned value
    ppc,                \* "call", then "returned"
    \* ---- _group_pages(page_texts) and the grouped build
    page_texts,         \* extracted text of each input page
    groups,             \* list of groups, each a list of 0-based page indices
    gpc,                \* "call", then "returned"
    \* ---- build_stacked_pdf_with_summary_grouped
    bpc,                \* position in the function
    g_idx,              \* loop counter (0 before the loop)
    done_routes,
    pages,              \* page images: records [kind, ref]
    toc_entries,
    mismatches,
    routes_over_30,
    routes_over_50_overflow,
    combined_routes,
    route_total_pkgs,
    route_comm_pkgs,
    top10_heavy_totals,
    top10_commercial,
    summary_pages,      \* items drawn on each summary page
    summary_link_specs_pages,
    summary_start_page,
    cb_log,             \* the calls made to progress_cb, in order
    output_file,        \* the file at output_pdf: NoFile or [pages, linked]
    result,             \* the returned record, NoResult before the return
    \* ---- what outlives one invocation
    run,                \* 1 for the first invocation, 2 for the second
    first_result,       \* what the first invocation returned and wrote
    font_cache,         \* _FONT_CACHE: the sizes loaded so far
    status_file,        \* _job_status.json: NoFile or the last payload written
    \* ---- render_toc_page(date_label, route_entries)
    route_entries,      \* the argument: records (title, output_page, time_label)
    toc_result,         \* the wave blocks drawn and the returned link_specs
    tpc,                \* "call", then "returned"
    \* ---- draw_tote(df, bags)
    tote_n,             \* n = len(df)
    tote_cells,         \* (col, row) of the tiles drawn so far, in bag order
    dpc,                \* "loop" while tiles remain, then "returned"
    \* ---- render_summary_pages(...) called on its own
    sum_args,           \* the five lists handed over
    sum_result,         \* the returned pages and specs_pages
    spc,                \* "call", then "returned"
    \* ---- the composition of one route page (table above tote)
    comp_in,            \* sizes of table_img and tote_img
    comp_out,           \* sizes after the resize and where they are pasted
    cpc,                \* "call", then "returned"
    \* ---- JobStore, the worker thread of one job and its status polls
    jobs,               \* JobStore._jobs[jid]
    ema,                \* ProgressEmaStore._data, seconds as num / den
    now,                \* time.monotonic(), in seconds
    w_op,               \* the operation of process_job the worker is in
    wpc,                \* the worker's place in it: "read", "get", "store", "end"
    w_merged,           \* worker: the progress it is about to store
    w_payload,          \* worker: payload = self.get(jid) inside set
    qpc,                \* the poll's place in job_status
    p_j,                \* poll: j = store.get(jid)
    p_pct,              \* poll: progress_percent
    p_merged,           \* poll: the progress it is about to store
    p_payload,          \* poll: payload = self.get(jid) inside set
    responses,          \* the status and progress_percent of the polls answered
    done_stored         \* process_job has stored status "done"

assignVars == <<bags, overs, texts, totals, last_assigned_bag, bis, apc>>

parseVars == <<text, parsed, ppc>>

groupVars == <<page_texts, groups, gpc>>

accVars ==
    <<pages, toc_entries, mismatches, routes_over_30, routes_over_50_overflow,
      combined_routes, route_total_pkgs, route_comm_pkgs>>

summaryVars ==
    <<top10_heavy_totals, top10_commercial, summary_pages,
      summary_link_specs_pages, summary_start_page>>

rerunVars == <<run, first_result>>

buildVars ==
    <<bpc, g_idx, done_routes, accVars, summaryVars, cb_log, output_file, result,
      rerunVars, font_cache, status_file>>

tocVars == <<route_entries, toc_result, tpc>>

toteVars == <<tote_n, tote_cells, dpc>>

sumVars == <<sum_args, sum_result, spc>>

compVars == <<comp_in, comp_out, cpc>>

jobVars ==
    <<jobs, ema, now, w_op, wpc, w_merged, w_payload, qpc, p_j, p_pct, p_merged,
      p_payload, responses, done_stored>>

callVars == <<sumVars, compVars, jobVars>>

drawVars == <<tocVars, toteVars, callVars>>

vars == <<assignVars, parseVars, groupVars, buildVars, drawVars>>

None == -1

(***************************************************************************)
(* Characters                                                              *)
(***************************************************************************)
Digits == {"0", "1", "2", "3", "4", "5", "6", "7", "8", "9"}

Upper ==
    {"A", "B", "C", "D", "E", "F", "G", "H", "I", "J", "K", "L", "M",
     "N", "O", "P", "Q", "R", "S", "T", "U", "V", "W", "X", "Y", "Z"}

Lower ==
    {"a", "b", "c", "d", "e", "f", "g", "h", "i", "j", "k", "l", "m",
     "n", "o", "p", "q", "r", "s", "t", "u", "v", "w", "x", "y", "z"}

UpperSeq == <<"A", "B", "C", "D", "E", "F", "G", "H", "I", "J", "K", "L", "M", 
     "N", "O", "P", "Q", "R", "S", "T", "U", "V", "W", "X", "Y", "Z">>

LowerSeq == <<"a", "b", "c", "d", "e", "f", "g", "h", "i", "j", "k", "l", "m", 
     "n", "o", "p", "q", "r", "s", "t", "u", "v", "w", "x", "y", "z">>

\* s[from..] as a tuple (Python s[from-1:])
Tail_(s, from) == SubSeq(s, from, Len(s))

\* all characters of s are in set S
AllIn(s, S) == \A i \in 1..Len(s) : s[i] \in S

\* length of the longest prefix of s whose characters are all in S
RECURSIVE LeadLen(_, _)
LeadLen(s, S) ==
    IF s = <<>> \/ Head(s) \notin S THEN 0 ELSE 1 + LeadLen(Tail(s), S)

\* position of the first occurrence of character c in s, 0 when absent
FindChar(s, c) ==
    IF \E i \in 1..Len(s) : s[i] = c
    THEN CHOOSE i \in 1..Len(s) : s[i] = c /\ \A j \in 1..(i - 1) : s[j] # c
    ELSE 0

StartsWith(s, p) == Len(s) >= Len(p) /\ SubSeq(s, 1, Len(p)) = p

\* str.lower() / str.upper() on one character and on a token
LowerChar(c) == IF c \in Upper THEN LowerSeq[FindChar(UpperSeq, c)] ELSE c

UpperChar(c) == IF c \in Lower THEN UpperSeq[FindChar(LowerSeq, c)] ELSE c

LowerTok(t) == [i \in 1..Len(t) |-> LowerChar(t[i])]

UpperTok(t) == [i \in 1..Len(t) |-> UpperChar(t[i])]

\* \w of the regex engine
WordChars == Digits \cup Upper \cup Lower \cup {"_"}

\* the tokens of a tuple of lines, in reading order
RECURSIVE FlattenRange(_, _, _)
FlattenRange(ls, lo, hi) ==
    IF lo > hi THEN <<>>
    ELSE IF lo = hi THEN ls[lo]
    ELSE FlattenRange(ls, lo, (lo + hi) \div 2) \o FlattenRange(ls, (lo + hi) \div 2 + 1, hi)

Flatten(ls) == FlattenRange(ls, 1, Len(ls))

\* the least element of a non-empty set of integers
Least(S) == CHOOSE x \in S : \A y \in S : x <= y

\* the counts of a list of <<zone, count>>
CountsOf(ovs) == [j \in 1..Len(ovs) |-> ovs[j][2]]

RECURSIVE SumSeq(_)
SumSeq(s) == IF s = <<>> THEN 0 ELSE Head(s) + SumSeq(Tail(s))

(***************************************************************************)
(* Overflow pairing                                                        *)
(***************************************************************************)
\* PAIR_MAP as a set of <<key, value>> items
PAIR_MAP ==
    {<<"A", "T">>, <<"B", "U">>, <<"C", "W">>, <<"D", "X">>, <<"E", "Y">>, <<"G", "Z">>}

\* INVERSE_PAIR = {v: k for k, v in PAIR_MAP.items()}
INVERSE_PAIR == {<<p[2], p[1]>> : p \in PAIR_MAP}

\* d.get(k) on a dict of characters given as a set of items; "" stands for None
DictGet(d, k) ==
    IF \E p \in d : p[1] = k THEN (CHOOSE p \in d : p[1] = k)[2] ELSE ""

\* ZONE_RE = ^(?:[A-Z]-[0-9.]*[A-Z]+|99\.[A-Z0-9]+)$
ZoneAlt1(t) ==
    /\ Len(t) >= 3
    /\ t[1] \in Upper
    /\ t[2] = "-"
    /\ LET rest == Tail_(t, 3)
           k == LeadLen(rest, Digits \cup {"."})
       IN  k < Len(rest) /\ AllIn(Tail_(rest, k + 1), Upper)

ZoneAlt2(t) ==
    /\ Len(t) >= 4
    /\ StartsWith(t, <<"9", "9", ".">>)
    /\ AllIn(Tail_(t, 4), Upper \cup Digits)

is_zone(t) == ZoneAlt1(t) \/ ZoneAlt2(t)

\* is_99_tag(label): first whitespace-separated word starts with "99."
\* (a token holds no whitespace, so the first word is the token itself)
is_99_tag(label) == StartsWith(label, <<"9", "9", ".">>)

\* SPLIT_RE = ^([0-9.]*)([A-Z]+)$ : the match's groups, or <<>> when no match
SplitMatch(tail) ==
    LET k == LeadLen(tail, Digits \cup {"."})
    IN  IF k < Len(tail) /\ AllIn(Tail_(tail, k + 1), Upper)
        THEN <<SubSeq(tail, 1, k), Tail_(tail, k + 1)>>
        ELSE <<>>

\* z[:-1], z[-1]   (z non-empty)
LastSplit(z) == <<SubSeq(z, 1, Len(z) - 1), z[Len(z)]>>

\* split_zone_for_index(z) = (core, letter)
split_zone_for_index(z) ==
    LET dash == FindChar(z, "-")
    IN  IF dash = 0 THEN LastSplit(z)
        ELSE LET prefix == SubSeq(z, 1, dash - 1)
                 tail == Tail_(z, dash + 1)
                 m == SplitMatch(tail)
             IN  IF m # <<>>
                 THEN <<IF m[1] # <<>> THEN prefix \o <<"-">> \o m[1] ELSE prefix,
                        m[2][Len(m[2])]>>
                 ELSE LastSplit(z)

\* zone.split("-", 1)[1] if "-" in zone else zone
label_core(zone) ==
    LET dash == FindChar(zone, "-")
    IN  IF dash = 0 THEN zone ELSE Tail_(zone, dash + 1)

\* bag_idx.get((core, L)): the bag positions whose sort_zone splits to (core, L),
\* in increasing order; bags without a sort_zone are skipped
RECURSIVE bag_idx_from(_, _, _, _)
bag_idx_from(bs, core, L, i) ==
    IF i >= Len(bs) THEN <<>>
    ELSE LET sz == bs[i + 1].sort_zone
             here == sz # <<>> /\ split_zone_for_index(sz) = <<core, L>>
         IN  (IF here THEN <<i>> ELSE <<>>) \o bag_idx_from(bs, core, L, i + 1)

bag_idx(bs, core, L) == bag_idx_from(bs, core, L, 0)

\* bi of a 99-tag line: the first bag when nothing was assigned yet, else the
\* bag of the preceding line
Choose99First(bs, last) == IF Len(bs) > 0 THEN 0 ELSE None

Choose99(bs, last) ==
    IF last = None
    THEN (IF Len(bs) > 0 THEN 0 ELSE None)
    ELSE last

\* bi of an ordinary line before the fallback: need = INVERSE_PAIR.get(L); the
\* first bag keyed (core, need), else the first bag keyed (core, L), else None
ChoosePaired(bs, zone) ==
    LET cl == split_zone_for_index(zone)
        core == cl[1]
        L == cl[2]
        need == DictGet(INVERSE_PAIR, L)
    IN  IF need # "" /\ bag_idx(bs, core, need) # <<>>
        THEN bag_idx(bs, core, need)[1]
        ELSE IF bag_idx(bs, core, L) # <<>>
        THEN bag_idx(bs, core, L)[1]
        ELSE None

\* the branch "if is99 ... else ..." of one iteration
FirstChoice(bs, zone, last) ==
    IF is_99_tag(label_core(zone)) THEN Choose99(bs, last) ELSE ChoosePaired(bs, zone)

\* the final fallback: keep continuity if possible, otherwise the first bag
FallbackNoFirst(bs, bi, last) ==
    IF bi # None THEN bi
    ELSE IF last # None THEN last
    ELSE None

Fallback(bs, bi, last) ==
    IF bi # None THEN bi
    ELSE IF last # None THEN last
    ELSE IF Len(bs) > 0 THEN 0
    ELSE None

\* bi of one iteration of the loop over overs
ChooseBag(bs, zone, last) == Fallback(bs, FirstChoice(bs, zone, last), last)

\* one iteration of the loop: state st = [texts, totals, last, bis]
AssignLine(bs, st, line) ==
    LET zone == line[1]
        count == line[2]
        bi == ChooseBag(bs, zone, st.last)
    IN  IF bi # None
        THEN [texts  |-> [st.texts EXCEPT ![bi + 1] = Append(@, <<label_core(zone), count>>)],
              totals |-> [st.totals EXCEPT ![bi + 1] = @ + count],
              last   |-> bi,
              bis    |-> Append(st.bis, bi)]
        ELSE [st EXCEPT !.bis = Append(@, None)]

\* texts = [[] for _ in bags]; totals = [0 for _ in bags]; last_assigned_bag = None
AssignStart(bs) ==
    [texts  |-> [i \in 1..Len(bs) |-> <<>>],
     totals |-> [i \in 1..Len(bs) |-> 0],
     last   |-> None,
     bis    |-> <<>>]

RECURSIVE AssignFold(_, _, _)
AssignFold(bs, st, ovs) ==
    IF ovs = <<>> THEN st ELSE AssignFold(bs, AssignLine(bs, st, Head(ovs)), Tail(ovs))

\* assign_overflows(bags, overs) as a whole
assign_overflows(bs, ovs) == AssignFold(bs, AssignStart(bs), ovs)

(***************************************************************************)
(* parse_route_page                                                        *)
(***************************************************************************)
BAG_COLORS_ALLOWED ==
    {<<"Y", "e", "l", "l", "o", "w">>,
     <<"G", "r", "e", "e", "n">>,
     <<"O", "r", "a", "n", "g", "e">>,
     <<"B", "l", "a", "c", "k">>,
     <<"N", "a", "v", "y">>,
     <<"B", "l", "u", "e">>,
     <<"B", "r", "o", "w", "n">>,
     <<"G", "r", "e", "y">>,
     <<"G", "r", "a", "y">>,
     <<"P", "u", "r", "p", "l", "e">>}

\* the words the patterns and string tests of the code look for
Lit ==
    [Sort |-> <<"S", "o", "r", "t">>,
     Zone |-> <<"Z", "o", "n", "e">>,
     Bag |-> <<"B", "a", "g">>,
     Pkgs |-> <<"P", "k", "g", "s">>,
     Total |-> <<"T", "o", "t", "a", "l">>,
     Commercial |-> <<"C", "o", "m", "m", "e", "r", "c", "i", "a", "l">>,
     Packages |-> <<"P", "a", "c", "k", "a", "g", "e", "s">>,
     Yellow |-> <<"Y", "e", "l", "l", "o", "w">>,
     Green |-> <<"G", "r", "e", "e", "n">>,
     STGdot |-> <<"S", "T", "G", ".">>,
     CX |-> <<"C", "X">>,
     TX |-> <<"T", "X">>,
     bag |-> <<"b", "a", "g">>,
     bags |-> <<"b", "a", "g", "s">>,
     over |-> <<"o", "v", "e", "r">>,
     total |-> <<"t", "o", "t", "a", "l">>,
     commercial |-> <<"c", "o", "m", "m", "e", "r", "c", "i", "a", "l">>,
     packages |-> <<"p", "a", "c", "k", "a", "g", "e", "s">>]

\* str.isdigit()
isdigit(t) == t # <<>> /\ AllIn(t, Digits)

\* re.sub(r"[^\d]", "", s): the digits of t, in order
RECURSIVE OnlyDigits(_)
OnlyDigits(t) ==
    IF t = <<>> THEN <<>>
    ELSE (IF Head(t) \in Digits THEN <<Head(t)>> ELSE <<>>) \o OnlyDigits(Tail(t))

DigitVal(c) ==
    CASE c = "0" -> 0 [] c = "1" -> 1 [] c = "2" -> 2 [] c = "3" -> 3 [] c = "4" -> 4
      [] c = "5" -> 5 [] c = "6" -> 6 [] c = "7" -> 7 [] c = "8" -> 8 [] c = "9" -> 9

\* int(ds) for a non-empty tuple of digits
RECURSIVE IntOf(_)
IntOf(ds) ==
    IF ds = <<>> THEN 0 ELSE IntOf(SubSeq(ds, 1, Len(ds) - 1)) * 10 + DigitVal(ds[Len(ds)])

\* parse_int_safe(token): None when the token holds no digit
parse_int_safe(t) ==
    LET cleaned == OnlyDigits(t) IN IF cleaned = <<>> THEN None ELSE IntOf(cleaned)

\* extract_bag_num_str(token): the digits, leading zeros kept; <<>> for None
extract_bag_num_str(t) == OnlyDigits(t)

\* "Sort Zone Bag Pkgs" in l, for a line of single-space separated tokens
RECURSIVE HasTableHeaderFrom(_, _)
HasTableHeaderFrom(l, p) ==
    IF p + 3 > Len(l) THEN FALSE
    ELSE \/ /\ Len(l[p]) >= 4 /\ Tail_(l[p], Len(l[p]) - 3) = Lit.Sort
            /\ l[p + 1] = Lit.Zone
            /\ l[p + 2] = Lit.Bag
            /\ StartsWith(l[p + 3], Lit.Pkgs)
         \/ HasTableHeaderFrom(l, p + 1)

HasTableHeader(l) == HasTableHeaderFrom(l, 1)

\* ln.startswith("Total Packages") or ln.startswith("Commercial Packages")
IsPackagesLine(l) ==
    /\ Len(l) >= 2
    /\ l[1] \in {Lit.Total, Lit.Commercial}
    /\ StartsWith(l[2], Lit.Packages)

\* the token scan of one data line: state acc = [bags, overs], ptr 0-based
RECURSIVE ScanLine(_, _, _)
ScanLine(toks, ptr, acc) ==
    IF ptr >= Len(toks) THEN acc
    ELSE IF /\ ptr + 4 < Len(toks)
            /\ isdigit(toks[ptr + 1])
            /\ is_zone(toks[ptr + 2])
            /\ toks[ptr + 3] \in BAG_COLORS_ALLOWED
    THEN LET idx_val == parse_int_safe(toks[ptr + 1])
             bag_num_str == extract_bag_num_str(toks[ptr + 4])
             pk == parse_int_safe(toks[ptr + 5])
         IN  ScanLine(toks, ptr + 5,
                 IF idx_val # None /\ bag_num_str # <<>> /\ pk # None
                 THEN [acc EXCEPT !.bags = Append(@,
                          [idx |-> idx_val, sort_zone |-> toks[ptr + 2],
                           bag |-> <<toks[ptr + 3], bag_num_str>>, pkgs |-> pk])]
                 ELSE acc)
    ELSE IF /\ ptr + 3 < Len(toks)
            /\ isdigit(toks[ptr + 1])
            /\ toks[ptr + 2] \in BAG_COLORS_ALLOWED
    THEN LET idx_val == parse_int_safe(toks[ptr + 1])
             bag_num_str == extract_bag_num_str(toks[ptr + 3])
             pk == parse_int_safe(toks[ptr + 4])
         IN  ScanLine(toks, ptr + 4,
                 IF idx_val # None /\ bag_num_str # <<>> /\ pk # None
                 THEN [acc EXCEPT !.bags = Append(@,
                          [idx |-> idx_val, sort_zone |-> <<>>,
                           bag |-> <<toks[ptr + 2], bag_num_str>>, pkgs |-> pk])]
                 ELSE acc)
    ELSE IF /\ ptr + 2 < Len(toks)
            /\ isdigit(toks[ptr + 1])
            /\ is_zone(toks[ptr + 2])
    THEN LET pk_val == parse_int_safe(toks[ptr + 3])
         IN  ScanLine(toks, ptr + 3,
                 IF pk_val # None
                 THEN [acc EXCEPT !.overs = Append(@, <<toks[ptr + 2], pk_val>>)]
                 ELSE acc)
    ELSE ScanLine(toks, ptr + 1, acc)

\* the rows one data line appends: none for a blank or a packages line
LineRows(l) ==
    IF l = <<>> \/ IsPackagesLine(l) THEN [bags |-> <<>>, overs |-> <<>>]
    ELSE ScanLine(l, 0, [bags |-> <<>>, overs |-> <<>>])

\* acc extended by the rows of each line, in order
AppendRows(acc, per) ==
    [bags |-> acc.bags \o Flatten([k \in 1..Len(per) |-> per[k].bags]),
     overs |-> acc.overs \o Flatten([k \in 1..Len(per) |-> per[k].overs])]

\* the loop over data_lines: each line appends its rows to bags and overs
ScanLines(ls, acc) == AppendRows(acc, [k \in 1..Len(ls) |-> LineRows(ls[k])])

\* position (1-based) of the first line from i on holding the table header,
\* 0 when none
HeaderLineFrom(ls, i) ==
    LET hits == {k \in i..Len(ls) : HasTableHeader(ls[k])}
    IN  IF hits = {} THEN 0 ELSE Least(hits)

\* list.sort(key=idx), stable: insertion of b after the elements with idx <= b.idx
RECURSIVE InsertByIdx(_, _)
InsertByIdx(sorted, b) ==
    IF sorted = <<>> THEN <<b>>
    ELSE IF Head(sorted).idx <= b.idx THEN <<Head(sorted)>> \o InsertByIdx(Tail(sorted), b)
    ELSE <<b>> \o sorted

RECURSIVE SortFold(_, _)
SortFold(done, rest) ==
    IF rest = <<>> THEN done ELSE SortFold(InsertByIdx(done, Head(rest)), Tail(rest))

\* bags.sort(key=lambda b: b.get("idx", 10**6))
SortBags(bs) == SortFold(<<>>, bs)

\* the rows recognised in the table body, in printed order
ScanTable(txt) ==
    LET h == HeaderLineFrom(txt, 1)
    IN  ScanLines(Tail_(txt, h + 1), [bags |-> <<>>, overs |-> <<>>])

\* STG\.([A-Z]+\.\d+) matched in token t at position i: group 1, or <<>>
StgGroupAt(t, i) ==
    LET r == Tail_(t, i)
    IN  IF ~StartsWith(r, Lit.STGdot) THEN <<>>
        ELSE LET a == Tail_(r, 5)
                 k == LeadLen(a, Upper)
                 b == Tail_(a, k + 2)
                 d == LeadLen(b, Digits)
             IN  IF k >= 1 /\ Len(a) > k /\ a[k + 1] = "." /\ d >= 1
                 THEN SubSeq(a, 1, k + 1 + d)
                 ELSE <<>>

\* ((?:CX|TX)\d{1,3}) matched in token t at position i: group 1, or <<>>
CxGroupAt(t, i) ==
    LET r == Tail_(t, i)
    IN  IF ~(StartsWith(r, Lit.CX) \/ StartsWith(r, Lit.TX)) THEN <<>>
        ELSE LET d == LeadLen(Tail_(r, 3), Digits)
             IN  IF d >= 1 THEN SubSeq(r, 1, 2 + (IF d > 3 THEN 3 ELSE d)) ELSE <<>>

\* group 1 of the pattern named kind matched in token t at position i
GroupAt(kind, t, i) == IF kind = "stg" THEN StgGroupAt(t, i) ELSE CxGroupAt(t, i)

\* re.search over a token stream for a pattern that holds no whitespace: the
\* group of the leftmost match, <<>> when there is none
RECURSIVE SearchTok(_, _, _)
SearchTok(kind, t, i) ==
    IF i > Len(t) THEN <<>>
    ELSE IF GroupAt(kind, t, i) # <<>> THEN GroupAt(kind, t, i)
    ELSE SearchTok(kind, t, i + 1)

SearchToks(kind, ts) ==
    LET hits == {k \in 1..Len(ts) : SearchTok(kind, ts[k], 1) # <<>>}
    IN  IF hits = {} THEN <<>> ELSE SearchTok(kind, ts[Least(hits)], 1)

\* the maximal run of digits that ends token t
RECURSIVE TrailDigits(_)
TrailDigits(t) ==
    IF t = <<>> \/ t[Len(t)] \notin Digits THEN <<>>
    ELSE Append(TrailDigits(SubSeq(t, 1, Len(t) - 1)), t[Len(t)])

\* re.search(r"(\d+)\s+bags?\s+(\d+)\s+over", l.lower()): groups, or <<>>
RECURSIVE DeclMatchFrom(_, _)
DeclMatchFrom(l, p) ==
    IF p + 3 > Len(l) THEN <<>>
    ELSE IF /\ TrailDigits(l[p]) # <<>>
            /\ LowerTok(l[p + 1]) \in {Lit.bag, Lit.bags}
            /\ isdigit(l[p + 2])
            /\ StartsWith(LowerTok(l[p + 3]), Lit.over)
    THEN <<TrailDigits(l[p]), l[p + 2]>>
    ELSE DeclMatchFrom(l, p + 1)

\* extract_declared_counts(lines) = <<bag_ct, ov_ct>>
\* the loop ends at the first line that holds the table header or a match
extract_declared_counts(ls) ==
    LET ends == {k \in 1..Len(ls) :
                    HasTableHeader(ls[k]) \/ DeclMatchFrom(ls[k], 1) # <<>>}
        l == ls[Least(ends)]
    IN  IF ends = {} \/ HasTableHeader(l) THEN <<None, None>>
        ELSE <<parse_int_safe(DeclMatchFrom(l, 1)[1]), parse_int_safe(DeclMatchFrom(l, 1)[2])>>

\* for tok in reversed(l.split()): the first value parse_int_safe accepts
RECURSIVE LastInt(_)
LastInt(l) ==
    IF l = <<>> THEN None
    ELSE IF parse_int_safe(l[Len(l)]) # None THEN parse_int_safe(l[Len(l)])
    ELSE LastInt(SubSeq(l, 1, Len(l) - 1))

\* l.strip().lower().startswith(first + " packages")
StartsPackages(l, first) ==
    /\ Len(l) >= 2
    /\ LowerTok(l[1]) = first
    /\ StartsWith(LowerTok(l[2]), Lit.packages)

\* the value the loop leaves in commercial / total: that of the last line
\* that starts with "<first> packages" and holds a number, None without one
LastPackages(ls, first) ==
    LET hits == {i \in 1..Len(ls) : StartsPackages(ls[i], first) /\ LastInt(ls[i]) # None}
    IN  IF hits = {} THEN None
        ELSE LastInt(ls[CHOOSE i \in hits : \A j \in hits : j <= i])

\* extract_pkg_summaries(lines) = <<commercial, total>>
extract_pkg_summaries(ls) ==
    <<LastPackages(ls, Lit.commercial), LastPackages(ls, Lit.total)>>

\* the value parse_route_page returns for no route (None)
NoRoute == [ok |-> FALSE]

\* parse_route_page(text)
parse_route_page(txt) ==
    LET rs == SearchToks("stg", Flatten(txt))
        cx == SearchToks("cx", Flatten(txt))
        decl == extract_declared_counts(txt)
        pk == extract_pkg_summaries(txt)
        h == HeaderLineFrom(txt, 1)
    IN  IF h = 0 THEN NoRoute
        ELSE LET rows == ScanTable(txt)
             IN  IF rows.bags = <<>> THEN NoRoute
                 ELSE [ok |-> TRUE, rs |-> rs, cx |-> cx,
                       bags |-> SortBags(rows.bags), overs |-> rows.overs,
                       decl_bags |-> decl[1], decl_over |-> decl[2],
                       comm_pkgs |-> pk[1], total_pkgs |-> pk[2]]

(***************************************************************************)
(* Page grouping                                                           *)
(***************************************************************************)
\* a regex word boundary at position i of token t (between t[i-1] and t[i])
BoundaryBefore(t, i) == i = 1 \/ t[i - 1] \notin WordChars

BoundaryAfter(t, i) == i = Len(t) \/ t[i + 1] \notin WordChars

\* _RE_STG = \bSTG\.[A-Z]\.\d+\b (re.I) matches in token t at position i
ReStgAt(t, i) ==
    LET r == UpperTok(Tail_(t, i))
        d == LeadLen(Tail_(r, 7), Digits)
    IN  /\ BoundaryBefore(t, i)
        /\ StartsWith(r, Lit.STGdot)
        /\ Len(r) >= 7
        /\ r[5] \in Upper
        /\ r[6] = "."
        /\ d >= 1
        /\ BoundaryAfter(t, i + 5 + d)

\* _RE_CX = \b(?:CX|TX)\d+\b (re.I) matches in token t at position i
ReCxAt(t, i) ==
    LET r == UpperTok(Tail_(t, i))
        d == LeadLen(Tail_(r, 3), Digits)
    IN  /\ BoundaryBefore(t, i)
        /\ (StartsWith(r, Lit.CX) \/ StartsWith(r, Lit.TX))
        /\ d >= 1
        /\ BoundaryAfter(t, i + 1 + d)

\* _is_header_page(t)
is_header_page(page) ==
    LET ts == Flatten(page)
    IN  /\ \E k \in 1..Len(ts) : \E i \in 1..Len(ts[k]) : ReStgAt(ts[k], i)
        /\ \E k \in 1..Len(ts) : \E i \in 1..Len(ts[k]) : ReCxAt(ts[k], i)

\* _RE_BAGS = \b(\d+)\s+bags\b (re.I) matches at tokens a, b
ReBagsAt(a, b) ==
    LET d == Len(TrailDigits(a))
        lb == LowerTok(b)
    IN  /\ d >= 1
        /\ BoundaryBefore(a, Len(a) - d + 1)
        /\ StartsWith(lb, Lit.bags)
        /\ BoundaryAfter(lb, 4)

\* "Sort Zone Bag" in t or "Sort Zone Pkgs" in t, on one line of the page
HasSortZone(l, third) ==
    \E p \in 1..(Len(l) - 2) :
        /\ Len(l[p]) >= 4 /\ Tail_(l[p], Len(l[p]) - 3) = Lit.Sort
        /\ l[p + 1] = Lit.Zone
        /\ StartsWith(l[p + 2], third)

\* _is_tableish_page(t)
is_tableish_page(page) ==
    LET ts == Flatten(page)
    IN  \/ \E k \in 1..Len(page) : HasSortZone(page[k], Lit.Bag)
        \/ \E k \in 1..Len(page) : HasSortZone(page[k], Lit.Pkgs)
        \/ \E k \in 1..(Len(ts) - 1) : ReBagsAt(ts[k], ts[k + 1])

\* not page_texts[i].strip()
is_blank_page(page) == Flatten(page) = <<>>

AbsorbNone(pts, i) == <<>>

\* the inner while loop: the pages absorbed from 0-based position i on
RECURSIVE Absorb(_, _)
Absorb(pts, i) ==
    IF /\ i < Len(pts)
       /\ ~is_header_page(pts[i + 1])
       /\ (is_tableish_page(pts[i + 1]) \/ is_blank_page(pts[i + 1]))
    THEN <<i>> \o Absorb(pts, i + 1)
    ELSE <<>>

GroupStepPastNext(pts, st) ==
    IF st.i >= Len(pts) THEN st
    ELSE IF is_header_page(pts[st.i + 1])
    THEN LET g == <<st.i>> \o Absorb(pts, st.i + 1)
         IN  [i |-> st.i + Len(g) + 1, groups |-> Append(st.groups, g)]
    ELSE [st EXCEPT !.i = @ + 1]

\* one pass of the outer while loop, st = [i, groups] with i 0-based
GroupStep(pts, st) ==
    IF st.i >= Len(pts) THEN st
    ELSE IF is_header_page(pts[st.i + 1])
    THEN LET g == <<st.i>> \o Absorb(pts, st.i + 1)
         IN  [i |-> st.i + Len(g), groups |-> Append(st.groups, g)]
    ELSE [st EXCEPT !.i = @ + 1]

\* k passes of the outer loop from state st, the first half of them first;
\* nothing is left to do once i has reached the end
RECURSIVE GroupLoop(_, _, _)
GroupLoop(pts, st, k) ==
    IF k = 0 THEN st
    ELSE IF k = 1 THEN GroupStep(pts, st)
    ELSE LET half == GroupLoop(pts, st, k \div 2)
         IN  IF half.i >= Len(pts) THEN half
             ELSE GroupLoop(pts, half, k - (k \div 2))

\* _group_pages(page_texts): every pass moves i forward, so len(page_texts)
\* passes reach the end
group_pages(pts) == GroupLoop(pts, [i |-> 0, groups |-> <<>>], Len(pts)).groups

(***************************************************************************)
(* Inputs of the overflow assigner                                         *)
(***************************************************************************)
MaxBags == 2
MaxOvers == 3

\* sort zones and overflow labels
Zn ==
    [A1A |-> <<"A", "-", "1", "A">>,
     A1T |-> <<"A", "-", "1", "T">>,
     A162U |-> <<"A", "-", "1", "6", ".", "2", "U">>,
     X99 |-> <<"9", "9", ".", "X">>,
     A99T |-> <<"A", "-", "9", "9", ".", "1", "T">>,
     B1T |-> <<"B", "-", "1", "T">>]

\* sort zones a bag row can carry (<<>>: the row printed none)
BagZonePool == {z \in {Zn.A1A, Zn.A1T} : is_zone(z)} \cup {<<>>}

\* overflow rows <<zone, count>> a route can print
OverLinePool ==
    {l \in {<<Zn.A1A, 1>>, <<Zn.A1T, 1>>, <<Zn.A162U, 5>>,
            <<Zn.X99, 2>>, <<Zn.A99T, 1>>, <<Zn.B1T, 1>>} : is_zone(l[1])}

SeqsUpTo(S, lo, hi) == UNION {[1..n -> S] : n \in lo..hi}

MkBag(i, z) ==
    [idx |-> i, sort_zone |-> z, bag |-> <<"Yellow", <<"0", "0", "1">>>>, pkgs |-> 10]

AssignInputs ==
    {<<[i \in 1..Len(zs) |-> MkBag(i, zs[i])], ovs>> :
        zs \in SeqsUpTo(BagZonePool, 1, MaxBags),
        ovs \in SeqsUpTo(OverLinePool, 0, MaxOvers)}

\* the components a specification does not exercise stay idle
AssignIdle ==
    /\ bags = <<>> /\ overs = <<>> /\ texts = <<>> /\ totals = <<>>
    /\ last_assigned_bag = None /\ bis = <<>> /\ apc = "idle"

ParseIdle == text = <<>> /\ parsed = NoRoute /\ ppc = "idle"

GroupIdle == page_texts = <<>> /\ groups = <<>> /\ gpc = "idle"

TocIdle == route_entries = <<>> /\ toc_result = <<>> /\ tpc = "idle"

ToteIdle == tote_n = 0 /\ tote_cells = <<>> /\ dpc = "idle"

SumIdle == sum_args = <<>> /\ sum_result = <<>> /\ spc = "idle"

CompIdle == comp_in = <<>> /\ comp_out = <<>> /\ cpc = "idle"

StageNames == {"queued", "parse_pdf", "excel", "build_html", "done", "error"}

\* a progress dict: a key that is absent is "" or None (an absent list: <<>>)
NoProgress ==
    [stage |-> "", started |-> None, last |-> None, completed |-> <<>>, pct |-> None]

NoJob ==
    [status |-> "missing", progress |-> NoProgress, error |-> FALSE,
     outputs |-> FALSE, toc |-> FALSE]

\* no stage has an observed duration yet
NoEma == [st \in StageNames |-> [num |-> 0, den |-> 0]]

JobIdle ==
    /\ jobs = NoJob /\ ema = NoEma /\ now = 0
    /\ w_op = 0 /\ wpc = "idle" /\ w_merged = NoProgress /\ w_payload = NoJob
    /\ qpc = "idle" /\ p_j = NoJob /\ p_pct = 0 /\ p_merged = NoProgress
    /\ p_payload = NoJob
    /\ responses = <<>> /\ done_stored = FALSE

CallIdle == SumIdle /\ CompIdle /\ JobIdle

DrawIdle == TocIdle /\ ToteIdle /\ CallIdle

NoFile == [written |-> FALSE]

NoResult == [returned |-> FALSE]

\* the sizes of FONT_BANNER ... FONT_ZONE, loaded when the module is imported
ModuleFonts == {40, 32, 22, 14, 16}

BuildIdle ==
    /\ bpc = "idle" /\ g_idx = 0 /\ done_routes = 0
    /\ pages = <<>> /\ toc_entries = <<>> /\ mismatches = <<>>
    /\ routes_over_30 = <<>> /\ routes_over_50_overflow = <<>>
    /\ combined_routes = <<>> /\ route_total_pkgs = <<>> /\ route_comm_pkgs = <<>>
    /\ top10_heavy_totals = <<>> /\ top10_commercial = <<>>
    /\ summary_pages = <<>> /\ summary_link_specs_pages = <<>>
    /\ summary_start_page = 0
    /\ cb_log = <<>> /\ output_file = NoFile /\ result = NoResult
    /\ run = 1 /\ first_result = NoResult
    /\ font_cache = ModuleFonts /\ status_file = NoFile

AssignInit ==
    /\ ParseIdle
    /\ DrawIdle
    /\ GroupIdle
    /\ BuildIdle
    /\ \E inp \in AssignInputs : bags = inp[1] /\ overs = inp[2]
    /\ texts = AssignStart(bags).texts
    /\ totals = AssignStart(bags).totals
    /\ last_assigned_bag = None
    /\ bis = <<>>
    /\ apc = "loop"

\* one iteration of "for zone, count in overs"
AssignIter ==
    /\ apc = "loop"
    /\ Len(bis) < Len(overs)
    /\ LET st == AssignLine(bags,
                            [texts |-> texts, totals |-> totals,
                             last |-> last_assigned_bag, bis |-> bis],
                            overs[Len(bis) + 1])
       IN  /\ texts' = st.texts
           /\ totals' = st.totals
           /\ last_assigned_bag' = st.last
           /\ bis' = st.bis
    /\ UNCHANGED <<bags, overs, apc>>
    /\ UNCHANGED <<parseVars, groupVars, buildVars, drawVars>>

\* return texts, totals
AssignReturn ==
    /\ apc = "loop"
    /\ Len(bis) = Len(overs)
    /\ apc' = "returned"
    /\ UNCHANGED <<bags, overs, texts, totals, last_assigned_bag, bis>>
    /\ UNCHANGED <<parseVars, groupVars, buildVars, drawVars>>

AssignNext == AssignIter \/ AssignReturn

SpecAssign == AssignInit /\ [][AssignNext]_vars

(***************************************************************************)
(* Overflow assigner: properties                                           *)
(***************************************************************************)
\* the entries <<label, count>> of the processed lines attached to position i,
\* in line order
RECURSIVE EntriesOf(_, _)
EntriesOf(i, j) ==
    IF j > Len(bis) THEN <<>>
    ELSE (IF bis[j] = i THEN <<<<label_core(overs[j][1]), overs[j][2]>>>> ELSE <<>>)
         \o EntriesOf(i, j + 1)

RECURSIVE SumLens(_)
SumLens(s) == IF s = <<>> THEN 0 ELSE Len(Head(s)) + SumLens(Tail(s))

\* C1: every processed overflow line is attached to exactly one bag position in
\* 0..len(bags)-1 (bi is never None), texts and totals hold exactly the
\* attached lines, and on return the number of text entries equals the number
\* of lines and sum(totals) equals the sum of the line counts.
C1_AssignTotal ==
    /\ \A j \in 1..Len(bis) : bis[j] \in 0..(Len(bags) - 1)
    /\ \A i \in 0..(Len(bags) - 1) :
          /\ texts[i + 1] = EntriesOf(i, 1)
          /\ totals[i + 1] = SumSeq([k \in 1..Len(texts[i + 1]) |-> texts[i + 1][k][2]])
    /\ apc = "returned" =>
          /\ Len(bis) = Len(overs)
          /\ SumLens(texts) = Len(overs)
          /\ SumSeq(totals) = SumSeq(CountsOf(overs))

\* a finished call with three lines, one of which matches no bag key at all
C1_Witness ==
    /\ apc = "returned"
    /\ Len(overs) = 3
    /\ Len(bags) = 2
    /\ \E j \in 1..Len(overs) :
          /\ ~is_99_tag(label_core(overs[j][1]))
          /\ ChoosePaired(bags, overs[j][1]) = None

\* the letter paired with L in the table A-T, B-U, C-W, D-X, E-Y, G-Z read in
\* both directions, "" when L is in no pair
PairedLetter(L) ==
    IF DictGet(PAIR_MAP, L) # "" THEN DictGet(PAIR_MAP, L) ELSE DictGet(INVERSE_PAIR, L)

\* the bag the stated precedence picks for the ordinary line at position j
PrecedenceBag(j) ==
    LET cl == split_zone_for_index(overs[j][1])
        P == PairedLetter(cl[2])
    IN  IF P # "" /\ bag_idx(bags, cl[1], P) # <<>> THEN bag_idx(bags, cl[1], P)[1]
        ELSE IF bag_idx(bags, cl[1], cl[2]) # <<>> THEN bag_idx(bags, cl[1], cl[2])[1]
        ELSE IF j > 1 THEN bis[j - 1]
        ELSE 0

\* C2: an ordinary (non-99) line goes to (1) a bag with the same core and the
\* paired letter, else (2) a bag with the same core and letter, else (3) the
\* bag of the most recently assigned line, else (4) bag position 0; one
\* zoneless bag with the single line ("A-16.2U", 5) gives totals = [5].
C2_Precedence ==
    /\ \A j \in 1..Len(bis) :
          ~is_99_tag(label_core(overs[j][1])) => bis[j] = PrecedenceBag(j)
    /\ (/\ apc = "returned"
        /\ Len(bags) = 1
        /\ bags[1].sort_zone = <<>>
        /\ overs = <<<<Zn.A162U, 5>>>>) => totals = <<5>>

\* C3: a line carrying either letter of a pair goes to a bag of the same core
\* carrying the other letter whenever such a bag exists.
C3_Bidirectional ==
    \A j \in 1..Len(bis) :
        LET cl == split_zone_for_index(overs[j][1])
            P == PairedLetter(cl[2])
        IN  (/\ ~is_99_tag(label_core(overs[j][1]))
             /\ P # ""
             /\ bag_idx(bags, cl[1], P) # <<>>)
            => bis[j] \in {bag_idx(bags, cl[1], P)[k] : k \in 1..Len(bag_idx(bags, cl[1], P))}

\* C4: a 99-tag line goes to bag position 0 when it is the first line of the
\* route and otherwise to the bag of the line right before it.
C4_Continuity99 ==
    \A j \in 1..Len(bis) :
        is_99_tag(label_core(overs[j][1])) =>
            bis[j] = (IF j = 1 THEN 0 ELSE bis[j - 1])

\* two consecutive 99-tag lines, one of them letter-prefixed, after an ordinary
\* line that was attached to bag position 1
C4_Witness ==
    /\ apc = "returned"
    /\ Len(bis) = 3
    /\ ~is_99_tag(label_core(overs[1][1]))
    /\ bis[1] = 1
    /\ is_99_tag(label_core(overs[2][1]))
    /\ is_99_tag(label_core(overs[3][1]))
    /\ overs[2][1] # overs[3][1]
    /\ bis[2] = 1 /\ bis[3] = 1

(***************************************************************************)
(* Inputs of the route parser                                              *)
(***************************************************************************)
MaxRows == 3

\* lines of page text: headers, summaries and table rows
Ln ==
     \* STG.A.1 CX12
    [Route |-> <<<<"S", "T", "G", ".", "A", ".", "1">>, <<"C", "X", "1", "2">>>>,
     \* Sort Zone Bag Pkgs
     Table |-> <<<<"S", "o", "r", "t">>, <<"Z", "o", "n", "e">>, <<"B", "a", "g">>, <<"P", "k", "g", "s">>>>,
     \* 1 A-1A Yellow 001 10
     Row1z |-> <<<<"1">>, <<"A", "-", "1", "A">>, <<"Y", "e", "l", "l", "o", "w">>, <<"0", "0", "1">>, <<"1", "0">>>>,
     \* 2 Green 002 7
     Row2 |-> <<<<"2">>, <<"G", "r", "e", "e", "n">>, <<"0", "0", "2">>, <<"7">>>>,
     \* 3 A-1T Yellow 003 4
     Row3z |-> <<<<"3">>, <<"A", "-", "1", "T">>, <<"Y", "e", "l", "l", "o", "w">>, <<"0", "0", "3">>, <<"4">>>>,
     \* 1 Green 009 3
     Row1b |-> <<<<"1">>, <<"G", "r", "e", "e", "n">>, <<"0", "0", "9">>, <<"3">>>>,
     \* 4 A-1T 3
     RowOv |-> <<<<"4">>, <<"A", "-", "1", "T">>, <<"3">>>>,
     \* 2 Yellow xx 5
     RowNoNum |-> <<<<"2">>, <<"Y", "e", "l", "l", "o", "w">>, <<"x", "x">>, <<"5">>>>,
     \* hello
     RowJunk |-> <<<<"h", "e", "l", "l", "o">>>>,
     \* STG.B.2 TX7
     RouteB |-> <<<<"S", "T", "G", ".", "B", ".", "2">>, <<"T", "X", "7">>>>,
     \* 1 bags 3 over
     Decl13 |-> <<<<"1">>, <<"b", "a", "g", "s">>, <<"3">>, <<"o", "v", "e", "r">>>>,
     \* 1 bags 5 over
     Decl15 |-> <<<<"1">>, <<"b", "a", "g", "s">>, <<"5">>, <<"o", "v", "e", "r">>>>,
     \* 30 bags 50 over
     DeclBig |-> <<<<"3", "0">>, <<"b", "a", "g", "s">>, <<"5", "0">>, <<"o", "v", "e", "r">>>>,
     \* Total Packages 13
     Total13 |-> <<<<"T", "o", "t", "a", "l">>, <<"P", "a", "c", "k", "a", "g", "e", "s">>, <<"1", "3">>>>,
     \* Total Packages 10
     Total10 |-> <<<<"T", "o", "t", "a", "l">>, <<"P", "a", "c", "k", "a", "g", "e", "s">>, <<"1", "0">>>>,
     \* Total Packages 50
     Total50 |-> <<<<"T", "o", "t", "a", "l">>, <<"P", "a", "c", "k", "a", "g", "e", "s">>, <<"5", "0">>>>,
     \* Total Packages 99
     Total99 |-> <<<<"T", "o", "t", "a", "l">>, <<"P", "a", "c", "k", "a", "g", "e", "s">>, <<"9", "9">>>>,
     \* Commercial Packages 4
     Comm4 |-> <<<<"C", "o", "m", "m", "e", "r", "c", "i", "a", "l">>, <<"P", "a", "c", "k", "a", "g", "e", "s">>, <<"4">>>>,
     \* 1 A-1A Yellow 001 30
     Row1z30 |-> <<<<"1">>, <<"A", "-", "1", "A">>, <<"Y", "e", "l", "l", "o", "w">>, <<"0", "0", "1">>, <<"3", "0">>>>,
     \* 2 Green 002 10
     Row2g10 |-> <<<<"2">>, <<"G", "r", "e", "e", "n">>, <<"0", "0", "2">>, <<"1", "0">>>>,
     \* 3 A-1T 5
     RowOv5 |-> <<<<"3">>, <<"A", "-", "1", "T">>, <<"5">>>>,
     \* 4 A-1T 3
     RowOv3 |-> <<<<"4">>, <<"A", "-", "1", "T">>, <<"3">>>>]

\* printed table lines: bag rows with and without zone, a repeated index, an
\* overflow row, a bag row whose bag number holds no digit, a stray word
RowPool == {Ln.Row1z, Ln.Row2, Ln.Row3z, Ln.Row1b, Ln.RowOv, Ln.RowNoNum, Ln.RowJunk}

ParseInputs ==
    {<<Ln.Route>> \o hdr \o rows :
        hdr \in {<<>>, <<Ln.Table>>}, rows \in SeqsUpTo(RowPool, 0, MaxRows)}

ParseInit ==
    /\ AssignIdle
    /\ GroupIdle
    /\ BuildIdle
    /\ DrawIdle
    /\ text \in ParseInputs
    /\ parsed = NoRoute
    /\ ppc = "call"

\* parsed = parse_route_page(text)
ParseCall ==
    /\ ppc = "call"
    /\ parsed' = parse_route_page(text)
    /\ ppc' = "returned"
    /\ UNCHANGED text
    /\ UNCHANGED <<assignVars, groupVars, buildVars, drawVars>>

ParseNext == ParseCall

SpecParse == ParseInit /\ [][ParseNext]_vars

(***************************************************************************)
(* Route parser: properties                                                *)
(***************************************************************************)
\* C6: the returned bags' idx values are strictly increasing in list
\* order, hence unique, whatever rows were recognised.
C6_StrictlyIncreasing ==
    (ppc = "returned" /\ parsed.ok) =>
        \A i, j \in 1..Len(parsed.bags) : i < j => parsed.bags[i].idx < parsed.bags[j].idx

(***************************************************************************)
(* The grouped build: per-route bookkeeping                                *)
(***************************************************************************)
\* the characters of the model in code-point order (str comparison)
CodeOrder ==
    <<" ", "(", ")", "-", ".", "0", "1", "2", "3", "4", "5", "6", "7", "8", "9", ":", 
     "A", "B", "C", "D", "E", "F", "G", "H", "I", "J", "K", "L", "M", "N", "O", "P", "Q", "R", "S", "T", "U", "V", "W", "X", "Y", "Z", "_", 
     "a", "b", "c", "d", "e", "f", "g", "h", "i", "j", "k", "l", "m", "n", "o", "p", "q", "r", "s", "t", "u", "v", "w", "x", "y", "z">>

\* a < b for two strings
StrLess(a, b) ==
    LET n == IF Len(a) < Len(b) THEN Len(a) ELSE Len(b)
        diff == {i \in 1..n : a[i] # b[i]}
    IN  IF diff = {} THEN Len(a) < Len(b)
        ELSE LET i == CHOOSE d \in diff : \A e \in diff : d <= e
             IN  FindChar(CodeOrder, a[i]) < FindChar(CodeOrder, b[i])

\* title = f"{rs} ({cx})" if (rs and cx) else (rs or cx or "Route")
TitleOf(rs, cx) ==
    IF rs # <<>> /\ cx # <<>> THEN rs \o <<" ", "(">> \o cx \o <<")">>
    ELSE IF rs # <<>> THEN rs
    ELSE IF cx # <<>> THEN cx
    ELSE <<"R", "o", "u", "t", "e">>

\* the lines of "\n\n".join(page_texts[i] for i in g), before strip()
RECURSIVE JoinPages(_, _)
JoinPages(pts, g) ==
    IF g = <<>> THEN <<>>
    ELSE LET here == IF pts[Head(g) + 1] = <<>> THEN <<<<>>>> ELSE pts[Head(g) + 1]
         IN  IF Tail(g) = <<>> THEN here ELSE here \o <<<<>>>> \o JoinPages(pts, Tail(g))

\* str.strip() on the joined text: blank lines at either end go
RECURSIVE StripLines(_)
StripLines(ls) ==
    IF ls = <<>> THEN <<>>
    ELSE IF Head(ls) = <<>> THEN StripLines(Tail(ls))
    ELSE IF ls[Len(ls)] = <<>> THEN StripLines(SubSeq(ls, 1, Len(ls) - 1))
    ELSE ls

combined_text(pts, g) == StripLines(JoinPages(pts, g))

\* parsed = parse_route_page(combined_text) if combined_text else None
ParseGroup(pts, g) ==
    IF Flatten(combined_text(pts, g)) = <<>> THEN NoRoute
    ELSE parse_route_page(combined_text(pts, g))

PkgsOf(bs) == [i \in 1..Len(bs) |-> bs[i].pkgs]

\* bag_count = int(decl_bags) if decl_bags is not None else len(bags)
bag_count_of(pr) == IF pr.decl_bags # None THEN pr.decl_bags ELSE Len(pr.bags)

\* declared_overflow = int(decl_over) if decl_over is not None else sum of overs
declared_overflow_of(pr) ==
    IF pr.decl_over # None THEN pr.decl_over ELSE SumSeq(CountsOf(pr.overs))

total_mismatch_unguarded(total_pkgs, sum_plus_overflow) ==
    total_pkgs # sum_plus_overflow

\* overflow_mismatch
overflow_mismatch_of(decl_over, computed_overflow_total) ==
    decl_over # None /\ decl_over # computed_overflow_total

\* total_mismatch
total_mismatch_of(total_pkgs, sum_plus_overflow) ==
    total_pkgs # None /\ total_pkgs # sum_plus_overflow

\* total_pkgs_value
total_pkgs_value_of(pr, bag_pk_total) ==
    IF pr.total_pkgs # None THEN pr.total_pkgs
    ELSE bag_pk_total + declared_overflow_of(pr)

OutputPageOff(pgs) == Len(pgs)

\* output_page = len(pages) + 1
OutputPage(pgs) == Len(pgs) + 1

\* the lists the build accumulates, as one record
AccStart ==
    [pages |-> <<[kind |-> "placeholder", ref |-> 0]>>,
     toc_entries |-> <<>>,
     mismatches |-> <<>>,
     routes_over_30 |-> <<>>,
     routes_over_50_overflow |-> <<>>,
     combined_routes |-> <<>>,
     route_total_pkgs |-> <<>>,
     route_comm_pkgs |-> <<>>]

\* the loop body for a group g (0-based page indices) that parsed to pr; a
\* route page is recorded by the first input page of its group
RouteStep(acc, pr, g) ==
    LET title == TitleOf(pr.rs, pr.cx)
        pages_used == [i \in 1..Len(g) |-> g[i] + 1]
        bag_count == bag_count_of(pr)
        declared_overflow == declared_overflow_of(pr)
        bag_pk_total == SumSeq(PkgsOf(pr.bags))
        computed_overflow_total == SumSeq(assign_overflows(pr.bags, pr.overs).totals)
        sum_plus_overflow == bag_pk_total + computed_overflow_total
        overflow_mismatch == overflow_mismatch_of(pr.decl_over, computed_overflow_total)
        total_mismatch == total_mismatch_of(pr.total_pkgs, sum_plus_overflow)
        output_page == OutputPage(acc.pages)
        mismatch_payload ==
            [title |-> title,
             declared_overflow |-> pr.decl_over,
             computed_overflow |-> computed_overflow_total,
             declared_total |-> pr.total_pkgs,
             computed_total |-> sum_plus_overflow,
             overflow_mismatch |-> overflow_mismatch,
             total_mismatch |-> total_mismatch,
             output_page |-> output_page]
    IN  [pages |-> Append(acc.pages, [kind |-> "route", ref |-> g[1]]),
         toc_entries |-> Append(acc.toc_entries,
                                [title |-> title, output_page |-> output_page]),
         mismatches |->
             IF overflow_mismatch \/ total_mismatch
             THEN Append(acc.mismatches, mismatch_payload)
             ELSE acc.mismatches,
         routes_over_30 |->
             IF bag_count >= 30
             THEN Append(acc.routes_over_30, <<bag_count, title, output_page>>)
             ELSE acc.routes_over_30,
         routes_over_50_overflow |->
             IF declared_overflow >= 50
             THEN Append(acc.routes_over_50_overflow, <<declared_overflow, title, output_page>>)
             ELSE acc.routes_over_50_overflow,
         combined_routes |->
             IF Len(g) > 1
             THEN Append(acc.combined_routes, <<title, pages_used, bag_count>>)
             ELSE acc.combined_routes,
         route_total_pkgs |->
             Append(acc.route_total_pkgs,
                    <<total_pkgs_value_of(pr, bag_pk_total), title, output_page>>),
         route_comm_pkgs |->
             Append(acc.route_comm_pkgs,
                    <<IF pr.comm_pkgs # None THEN pr.comm_pkgs ELSE 0, title, output_page>>)]

DropStepBlankPage(acc) ==
    [acc EXCEPT !.pages = Append(@, [kind |-> "route", ref |-> None])]

\* the loop body for a group that did not parse: "continue"
DropStep(acc) == acc

\* list.sort(key=lambda x: (-x[0], x[1])), stable
KeyLess(a, b) == a[1] > b[1] \/ (a[1] = b[1] /\ StrLess(a[2], b[2]))

\* a stable sort puts xs[i] after the elements with a smaller key and after
\* the earlier elements with an equal key
SortByKey(xs) ==
    LET n == Len(xs)
        rank == [i \in 1..n |->
                    1 + Cardinality({j \in 1..n :
                            \/ KeyLess(xs[j], xs[i])
                            \/ ~KeyLess(xs[i], xs[j]) /\ j < i})]
    IN  [p \in 1..n |-> xs[CHOOSE i \in 1..n : rank[i] = p]]

\* combined_routes.sort(key=lambda x: x[1][0]), stable
SortByFirstPage(xs) ==
    LET n == Len(xs)
        rank == [i \in 1..n |->
                    1 + Cardinality({j \in 1..n :
                            \/ xs[j][2][1] < xs[i][2][1]
                            \/ xs[j][2][1] = xs[i][2][1] /\ j < i})]
    IN  [p \in 1..n |-> xs[CHOOSE i \in 1..n : rank[i] = p]]

\* xs[:10]
Top10(xs) == SubSeq(xs, 1, IF Len(xs) < 10 THEN Len(xs) ELSE 10)

(***************************************************************************)
(* render_summary_pages: pagination                                        *)
(***************************************************************************)
PAGE_H_PX == 2200
bottom_guard == 80
TopY == 70
SectionH == 44
SectionPad == 12
SectionGap == 6
RowH == 26

\* the state of the closure: finished pages, the page being drawn, y.
\* A page is the list of items drawn on it; an item is
\* <<kind, section, target page>> with kind "section", "row" or "ok".
\* space_log keeps, for each call of _ensure_space, y, needed_h and whether
\* the page was pushed.
SummaryStart ==
    [pages |-> <<>>, specs_pages |-> <<>>, page |-> <<>>, link_specs |-> <<>>,
     y |-> TopY, current_section |-> "", space_log |-> <<>>]

\* _push_page()
push_page(st) ==
    [st EXCEPT !.pages = Append(@, st.page),
               !.specs_pages = Append(@, st.link_specs),
               !.page = <<>>,
               !.link_specs = <<>>,
               !.y = TopY]

\* y = _section(title, y)
section(st, title) ==
    [st EXCEPT !.current_section = title,
               !.page = Append(@, <<"section", title, 0>>),
               !.y = @ + SectionH]

needs_break_at_limit(st, needed_h) == st.y + needed_h >= PAGE_H_PX - bottom_guard

\* the test of _ensure_space: needed_h does not fit above the bottom guard
needs_break(st, needed_h) == st.y + needed_h > PAGE_H_PX - bottom_guard

\* the call as space_log keeps it
logged(st, needed_h) ==
    [st EXCEPT !.space_log =
        Append(@, [y |-> st.y, needed_h |-> needed_h, pushed |-> needs_break(st, needed_h)])]

ensure_space_plain(st, needed_h, repeat_section) ==
    IF needs_break(st, needed_h) THEN push_page(logged(st, needed_h)) ELSE logged(st, needed_h)

\* y = _ensure_space(needed_h, repeat_section)
ensure_space(st, needed_h, repeat_section) ==
    IF needs_break(st, needed_h)
    THEN IF repeat_section /\ st.current_section # ""
         THEN section(push_page(logged(st, needed_h)), st.current_section)
         ELSE push_page(logged(st, needed_h))
    ELSE logged(st, needed_h)

\* y = _row(route, metric, page_no, y): the row and its link spec
row(st, page_no) ==
    [st EXCEPT !.page = Append(@, <<"row", st.current_section, page_no>>),
               !.link_specs = Append(@, page_no),
               !.y = @ + RowH]

\* for ... in rows: y = _ensure_space(26, repeat_section=True); y = _row(...)
\* (one row: the test, then the row; several: the rows of the first half, then
\* those of the second)
RECURSIVE Rows(_, _)
Rows(st, targets) ==
    CASE needs_break(st, RowH) /\ Len(targets) = 1 ->
             row(ensure_space(st, RowH, TRUE), targets[1])
      [] Len(targets) = 1 -> row(logged(st, RowH), targets[1])
      [] targets = <<>> -> st
      [] OTHER -> Rows(Rows(st, SubSeq(targets, 1, Len(targets) \div 2)),
                       SubSeq(targets, Len(targets) \div 2 + 1, Len(targets)))

\* y = _ensure_space(44 + 12); y = _section(title, y); y += 6
OpenSection(st, title) ==
    LET s1 == section(ensure_space(st, SectionH + SectionPad, FALSE), title)
    IN  [s1 EXCEPT !.y = @ + SectionGap]

\* y += 12 after a section's rows
CloseSection(st) == [st EXCEPT !.y = @ + SectionPad]

\* the "OK (NO MISMATCHES)" line
OkLine(st) ==
    LET s1 == ensure_space(st, SectionH, FALSE)
    IN  [s1 EXCEPT !.page = Append(@, <<"ok", s1.current_section, 0>>),
                   !.y = @ + SectionH]

\* the output_page of each mismatch payload
MismatchTargets(ms) == [k \in 1..Len(ms) |-> ms[k].output_page]

\* the page of each (count, title, output_page)
Targets(xs) == [k \in 1..Len(xs) |-> xs[k][3]]

\* render_summary_pages(mismatches, routes_over_30, routes_over_50_overflow,
\*                      top10_heavy_totals, top10_commercial)
render_summary_pages(ms, o30, o50, heavy, comm) ==
    LET v0 == OpenSection(SummaryStart, "Verification")
        v1 == IF ms # <<>> THEN CloseSection(Rows(v0, MismatchTargets(ms)))
              ELSE OkLine(v0)
        b1 == CloseSection(Rows(OpenSection(v1, "Routes with 30+ Bags"), Targets(o30)))
        o1 == CloseSection(Rows(OpenSection(b1, "Routes with 50+ Overflow"), Targets(o50)))
        h1 == CloseSection(Rows(OpenSection(o1, "Routes with Heaviest Package Counts"),
                                Targets(heavy)))
        c1 == Rows(OpenSection(h1, "Routes with Heaviest Commercial"), Targets(comm))
        \* the state each section leaves, in the order the sections are drawn
        drawn == <<v1, b1, o1, h1, c1>>
        end == drawn[Len(drawn)]
    IN  [pages |-> Append(end.pages, end.page),
         specs_pages |-> Append(end.specs_pages, end.link_specs),
         space_log |-> end.space_log]

\* pct in _cb: 25 without a total, else round(min(total, done) / total * 100)
\* clamped to 2..99.  round() is to nearest, ties to even; the float quotient
\* agrees with the exact one for every total below 40.
percent_of(pages_total, pages_done) ==
    IF pages_total <= 0 THEN 25
    ELSE LET m == IF pages_done < 0 THEN 0
                  ELSE IF pages_done > pages_total THEN pages_total ELSE pages_done
             q == (100 * m) \div pages_total
             r == (100 * m) % pages_total
             pct == IF 2 * r < pages_total THEN q
                    ELSE IF 2 * r > pages_total THEN q + 1
                    ELSE IF q % 2 = 0 THEN q ELSE q + 1
         IN  IF pct < 2 THEN 2 ELSE IF pct > 99 THEN 99 ELSE pct

\* the keyword arguments _cb hands to progress_cb (detail left out)
cb(pages_total, pages_done, current_page, stage) ==
    [pages_total |-> pages_total, pages_done |-> pages_done,
     current_page |-> current_page, stage |-> stage,
     percent |-> percent_of(pages_total, pages_done)]

(***************************************************************************)
(* Input documents                                                         *)
(***************************************************************************)
MaxPages == 3

\* page texts: blank, junk, headers without bag rows, readable routes, and
\* a continuation page (table rows without a route header)
Pg ==
    [Blank |-> <<>>,
     Junk |-> <<Ln.RowJunk>>,
     HdrOnly |-> <<Ln.Route>>,
     HdrNoBags |-> <<Ln.Route, Ln.Table, Ln.RowOv>>,
     Match |-> <<Ln.Route, Ln.Decl13, Ln.Table, Ln.Row1z, Ln.RowOv, Ln.Total13>>,
     OvMis |-> <<Ln.RouteB, Ln.Decl15, Ln.Table, Ln.Row2, Ln.RowOv, Ln.Total10>>,
     TotMis |-> <<Ln.Route, Ln.Table, Ln.Row1z30, Ln.Row2g10, Ln.RowOv5, Ln.RowOv3, Ln.Total50>>,
     Big |-> <<Ln.RouteB, Ln.DeclBig, Ln.Table, Ln.Row1z, Ln.RowOv, Ln.Total99, Ln.Comm4>>,
     Cont |-> <<Ln.Table, Ln.Row3z, Ln.RowOv>>]

PagePool ==
    {Pg.Blank, Pg.Junk, Pg.HdrOnly, Pg.HdrNoBags, Pg.Match, Pg.OvMis, Pg.TotMis, Pg.Big, Pg.Cont}

ShortDocs == SeqsUpTo(PagePool, 0, MaxPages)

GroupInit ==
    /\ AssignIdle
    /\ ParseIdle
    /\ DrawIdle
    /\ BuildIdle
    /\ page_texts \in ShortDocs
    /\ groups = <<>>
    /\ gpc = "call"

\* groups = _group_pages(page_texts)
GroupCall ==
    /\ gpc = "call"
    /\ groups' = group_pages(page_texts)
    /\ gpc' = "returned"
    /\ UNCHANGED page_texts
    /\ UNCHANGED <<assignVars, parseVars, buildVars, drawVars>>

GroupNext == GroupCall

SpecGroup == GroupInit /\ [][GroupNext]_vars

(***************************************************************************)
(* Page grouping: properties                                               *)
(***************************************************************************)
Page(i) == page_texts[i + 1]

Continues(i) == ~is_header_page(Page(i)) /\ (is_tableish_page(Page(i)) \/ is_blank_page(Page(i)))

\* C7: every group is a non-empty run of consecutive page indices, its first
\* page a header page, the others non-header and (table-ish or blank), and
\* the page right after the group, if any, is a header page or is neither
\* table-ish nor blank.
C7_GroupShape ==
    gpc = "returned" =>
        \A k \in 1..Len(groups) :
            LET g == groups[k]
            IN  /\ Len(g) >= 1
                /\ g[1] \in 0..(Len(page_texts) - 1)
                /\ \A m \in 1..Len(g) : g[m] = g[1] + m - 1
                /\ g[Len(g)] <= Len(page_texts) - 1
                /\ is_header_page(Page(g[1]))
                /\ \A m \in 2..Len(g) : Continues(g[m])
                /\ g[Len(g)] + 1 <= Len(page_texts) - 1 => ~Continues(g[Len(g)] + 1)

\* a header page absorbs the blank page after it and stops at a page that is
\* neither table-ish nor blank
C7_Witness ==
    /\ gpc = "returned"
    /\ page_texts = <<Pg.Match, Pg.Blank, Pg.Junk>>
    /\ groups = <<<<0, 1>>>>

HeaderPages == {i \in 0..(Len(page_texts) - 1) : is_header_page(Page(i))}

\* C25: there are as many groups as header pages, each header page is the
\* first page of exactly one group, no page is in two groups, the groups are
\* in increasing page order, and a non-header page is in a group only if all
\* pages from the nearest header page before it up to it are non-header and
\* (table-ish or blank); a page before the first header page is in no group.
C25_GroupsPartitionHeaders ==
    gpc = "returned" =>
        /\ Len(groups) = Cardinality(HeaderPages)
        /\ \A h \in HeaderPages :
               Cardinality({k \in 1..Len(groups) : groups[k][1] = h}) = 1
        /\ \A k, l \in 1..Len(groups) : \A m \in 1..Len(groups[k]), q \in 1..Len(groups[l]) :
               groups[k][m] = groups[l][q] => (k = l /\ m = q)
        /\ \A k \in 1..(Len(groups) - 1) : groups[k][Len(groups[k])] < groups[k + 1][1]
        /\ \A k \in 1..Len(groups) : \A m \in 1..Len(groups[k]) :
               LET i == groups[k][m]
               IN  i \notin HeaderPages =>
                       /\ \E h \in HeaderPages : h < i
                       /\ LET h == CHOOSE x \in HeaderPages :
                                       x < i /\ \A y \in HeaderPages : y < i => y <= x
                          IN  /\ groups[k][1] = h
                              /\ \A j \in (h + 1)..i : Continues(j)

\* two header pages, the first followed by a page of table rows: two groups,
\* the page of table rows in the first
C25_Witness ==
    /\ gpc = "returned"
    /\ page_texts = <<Pg.Match, Pg.Cont, Pg.OvMis>>
    /\ HeaderPages = {0, 2}
    /\ groups = <<<<0, 1>>, <<2>>>>

(***************************************************************************)
(* build_stacked_pdf_with_summary_grouped                                  *)
(***************************************************************************)
LongReps == 16

Rep(x, n) == [i \in 1..n |-> x]

\* documents long enough for the summary to run over one page, without and
\* with an unreadable route among the readable ones
LongDocs ==
    {Rep(Pg.Big, LongReps), <<Pg.Big, Pg.HdrNoBags>> \o Rep(Pg.Big, LongReps - 1)}

\* the pages of the short documents handed to the build
BuildPagePool == {Pg.Blank, Pg.HdrNoBags, Pg.Match, Pg.OvMis, Pg.TotMis, Pg.Cont}

Docs == SeqsUpTo(BuildPagePool, 0, MaxPages) \cup LongDocs

Acc ==
    [pages |-> pages,
     toc_entries |-> toc_entries,
     mismatches |-> mismatches,
     routes_over_30 |-> routes_over_30,
     routes_over_50_overflow |-> routes_over_50_overflow,
     combined_routes |-> combined_routes,
     route_total_pkgs |-> route_total_pkgs,
     route_comm_pkgs |-> route_comm_pkgs]

SetAcc(a) ==
    /\ pages' = a.pages
    /\ toc_entries' = a.toc_entries
    /\ mismatches' = a.mismatches
    /\ routes_over_30' = a.routes_over_30
    /\ routes_over_50_overflow' = a.routes_over_50_overflow
    /\ combined_routes' = a.combined_routes
    /\ route_total_pkgs' = a.route_total_pkgs
    /\ route_comm_pkgs' = a.route_comm_pkgs

\* the state on entry of the first invocation on a document of D, after the
\* empty lists are created
BuildInitIn(D) ==
    /\ AssignIdle
    /\ ParseIdle
    /\ DrawIdle
    /\ page_texts \in D
    /\ groups = <<>>
    /\ gpc = "idle"
    /\ bpc = "start" /\ g_idx = 0 /\ done_routes = 0
    /\ pages = AccStart.pages
    /\ toc_entries = <<>> /\ mismatches = <<>>
    /\ routes_over_30 = <<>> /\ routes_over_50_overflow = <<>>
    /\ combined_routes = <<>> /\ route_total_pkgs = <<>> /\ route_comm_pkgs = <<>>
    /\ top10_heavy_totals = <<>> /\ top10_commercial = <<>>
    /\ summary_pages = <<>> /\ summary_link_specs_pages = <<>>
    /\ summary_start_page = 0
    /\ cb_log = <<>> /\ output_file = NoFile /\ result = NoResult
    /\ run = 1 /\ first_result = NoResult
    /\ font_cache = ModuleFonts /\ status_file = NoFile

BuildInit == BuildInitIn(Docs)

\* the default progress_cb: the payload replaces the status file
written_status(log) == log[Len(log)]

no_groups_never(gs) == FALSE

\* if not groups
no_groups(gs) == gs = <<>>

\* from the "Reading" callback to the raise, or to the loop
BuildStart ==
    /\ bpc = "start"
    /\ groups' = group_pages(page_texts)
    /\ IF no_groups(groups')
       THEN /\ bpc' = "raised"
            /\ cb_log' = Append(cb_log, cb(0, 0, 0, "Reading"))
       ELSE /\ bpc' = "loop"
            /\ cb_log' = cb_log \o <<cb(0, 0, 0, "Reading"),
                                     cb(Len(groups'), 0, 0, "Processing")>>
    /\ status_file' = written_status(cb_log')
    /\ UNCHANGED <<page_texts, gpc, g_idx, done_routes, accVars, summaryVars,
                   output_file, result, rerunVars, font_cache>>
    /\ UNCHANGED <<assignVars, parseVars, drawVars>>

done_after_skip_same(done) == done

\* done_routes += 1 for a skipped route
done_after_skip(done) == done + 1

\* one loop iteration whose group does not parse
RouteDropped ==
    /\ bpc = "loop"
    /\ g_idx < Len(groups)
    /\ ~ParseGroup(page_texts, groups[g_idx + 1]).ok
    /\ g_idx' = g_idx + 1
    /\ done_routes' = done_after_skip(done_routes)
    /\ SetAcc(DropStep(Acc))
    /\ cb_log' = cb_log \o <<cb(Len(groups), done_routes, g_idx', "Processing"),
                             cb(Len(groups), done_routes', g_idx', "Processing")>>
    /\ status_file' = written_status(cb_log')
    /\ UNCHANGED <<bpc, summaryVars, output_file, result, rerunVars, font_cache>>
    /\ UNCHANGED <<assignVars, parseVars, groupVars, drawVars>>

\* one loop iteration whose group parses
RouteRendered ==
    /\ bpc = "loop"
    /\ g_idx < Len(groups)
    /\ LET pr == ParseGroup(page_texts, groups[g_idx + 1])
       IN  /\ pr.ok
           /\ SetAcc(RouteStep(Acc, pr, groups[g_idx + 1]))
    /\ g_idx' = g_idx + 1
    /\ done_routes' = done_routes + 1
    /\ cb_log' = cb_log \o <<cb(Len(groups), done_routes, g_idx', "Processing"),
                             cb(Len(groups), done_routes', g_idx', "Processing")>>
    /\ status_file' = written_status(cb_log')
    /\ UNCHANGED <<bpc, summaryVars, output_file, result, rerunVars, font_cache>>
    /\ UNCHANGED <<assignVars, parseVars, groupVars, drawVars>>

\* get_font(size): the font of that size, loaded once and cached
get_font(cache, size) == [font |-> size, cache |-> cache \cup {size}]

\* the cache after get_font was called for each of the sizes
fonts_after(cache, sizes) == UNION {get_font(cache, z).cache : z \in sizes} \cup cache

\* body_font, label_font of render_summary_pages
SummaryFonts == {24, 18}

\* title_font, date_font, sub_font of render_toc_page
CoverFonts == {72, 34, 28}

SummaryPageImages(sp) == [k \in 1..Len(sp) |-> [kind |-> "summary", ref |-> k - 1]]

\* after the loop: sorts, summary pages, cover
BuildSummary ==
    /\ bpc = "loop"
    /\ g_idx = Len(groups)
    /\ cb_log' = Append(cb_log, cb(Len(groups), done_routes, done_routes, "Summary"))
    /\ routes_over_30' = SortByKey(routes_over_30)
    /\ routes_over_50_overflow' = SortByKey(routes_over_50_overflow)
    /\ combined_routes' = SortByFirstPage(combined_routes)
    /\ route_total_pkgs' = SortByKey(route_total_pkgs)
    /\ route_comm_pkgs' = SortByKey(route_comm_pkgs)
    /\ top10_heavy_totals' = Top10(route_total_pkgs')
    /\ top10_commercial' = Top10(route_comm_pkgs')
    /\ LET r == render_summary_pages(mismatches, routes_over_30',
                                     routes_over_50_overflow',
                                     top10_heavy_totals', top10_commercial')
       IN  /\ summary_pages' = r.pages
           /\ summary_link_specs_pages' = r.specs_pages
           /\ summary_start_page' = Len(pages) + 1
           /\ pages' = [(pages \o SummaryPageImages(r.pages))
                            EXCEPT ![1] = [kind |-> "toc", ref |-> 0]]
    /\ bpc' = "saving"
    /\ font_cache' = fonts_after(font_cache, SummaryFonts \cup CoverFonts)
    /\ status_file' = written_status(cb_log')
    /\ UNCHANGED <<g_idx, done_routes, toc_entries, mismatches, output_file, result,
                   rerunVars>>
    /\ UNCHANGED <<assignVars, parseVars, groupVars, drawVars>>

\* pages[0].save(output_pdf, save_all=True, append_images=pages[1:])
BuildSave ==
    /\ bpc = "saving"
    /\ cb_log' = Append(cb_log, cb(Len(groups), done_routes, done_routes, "Saving"))
    /\ output_file' = [written |-> TRUE, pages |-> pages, linked |-> FALSE]
    /\ bpc' = "linking"
    /\ status_file' = written_status(cb_log')
    /\ UNCHANGED <<g_idx, done_routes, accVars, summaryVars, result, rerunVars,
                   font_cache>>
    /\ UNCHANGED <<assignVars, parseVars, groupVars, drawVars>>

\* the steps at which _try_add_all_links can fail: the import, fitz.open, an
\* insert_link, doc.save, os.replace; "none" for a call that runs to its end
LinkFailures == {"none", "import", "open", "link", "save", "replace"}

\* a file whose writing was cut short
PartialFile == [written |-> TRUE, pages |-> <<>>, linked |-> TRUE]

\* the links a list of target pages yields in a document of n pages
valid_links(n, targets) == Cardinality({k \in 1..Len(targets) : targets[k] \in 1..n})

\* added: the links of the cover (page 1) and of the summary pages that exist
links_added(n, toc_targets, start_page, specs_pages) ==
    (IF n >= 1 THEN valid_links(n, toc_targets) ELSE 0)
    + SumSeq([i \in 1..Len(specs_pages) |->
                 IF start_page - 1 + (i - 1) \in 0..(n - 1)
                 THEN valid_links(n, specs_pages[i]) ELSE 0])

link_from_next_page(start_page, idx) == start_page + idx

\* sp = int(summary_start_page) - 1 + int(idx): the 0-based page that gets the
\* links of summary page idx
link_from_page(start_page, idx) == start_page - 1 + idx

\* the links inserted for the summary pages, in order: from and to are
\* 0-based pages of the document of n pages
summary_links_inserted(n, start_page, specs_pages) ==
    Flatten([i \in 1..Len(specs_pages) |->
                IF link_from_page(start_page, i - 1) \in 0..(n - 1)
                THEN LET ok == SelectSeq(specs_pages[i], LAMBDA t : t \in 1..n)
                     IN  [j \in 1..Len(ok) |->
                             [from |-> link_from_page(start_page, i - 1), to |-> ok[j] - 1]]
                ELSE <<>>])

link_save_in_place(c, f) ==
    [c EXCEPT !.file = IF f = "save" THEN PartialFile ELSE [c.file EXCEPT !.linked = TRUE],
              !.tmp = IF f = "save" THEN NoFile ELSE [c.file EXCEPT !.linked = TRUE],
              !.failed = (f = "save")]

\* doc.save(tmp_path, garbage=4, deflate=True) in the call state
\* c = [file, tmp, failed]: the linked copy goes to tmp_path
link_save(c, f) ==
    [c EXCEPT !.tmp = IF f = "save" THEN PartialFile ELSE [c.file EXCEPT !.linked = TRUE],
              !.failed = (f = "save")]

\* os.replace(tmp_path, pdf_path)
link_replace(c, f) ==
    IF c.failed THEN c
    ELSE IF f = "replace" THEN [c EXCEPT !.failed = TRUE]
    ELSE [c EXCEPT !.file = c.tmp, !.tmp = NoFile]

\* the except branch: the temporary copy is removed if it exists
link_cleanup(c) == IF c.failed THEN [c EXCEPT !.tmp = NoFile] ELSE c

\* _try_add_all_links(pdf_path, ...) with the failure f: the files at pdf_path
\* and tmp_path afterwards and the returned value
try_add_all_links(file, added, f) ==
    IF f = "import" THEN [file |-> file, tmp |-> NoFile, ret |-> FALSE]
    ELSE LET c0 == [file |-> file, tmp |-> NoFile, failed |-> f \in {"open", "link"}]
             c1 == IF c0.failed THEN c0 ELSE link_save(c0, f)
             c2 == link_cleanup(link_replace(c1, f))
         IN  [file |-> c2.file, tmp |-> c2.tmp, ret |-> ~c2.failed /\ added > 0]

\* the target page of each route title on the cover (toc_link_specs)
TocTargets(entries) == [k \in 1..Len(entries) |-> entries[k].output_page]

\* added for the file just written
LinksHere ==
    links_added(Len(output_file.pages), TocTargets(toc_entries), summary_start_page,
                summary_link_specs_pages)

\* _try_add_all_links(...) succeeds or not, then the return
BuildLink ==
    /\ bpc = "linking"
    /\ cb_log' = cb_log \o <<cb(Len(groups), done_routes, done_routes, "Linking"),
                             cb(Len(groups), done_routes, done_routes, "Done")>>
    /\ \E f \in LinkFailures :
           output_file' = try_add_all_links(output_file, LinksHere, f).file
    /\ result' =
           [returned |-> TRUE,
            group_count |-> Len(groups),
            mismatch_count |-> Len(mismatches),
            mismatches |-> mismatches,
            routes_over_30 |-> routes_over_30,
            routes_over_50_overflow |-> routes_over_50_overflow,
            top10_heavy_totals |-> top10_heavy_totals,
            top10_commercial |-> top10_commercial,
            combined_routes |-> combined_routes,
            toc_entries |-> toc_entries]
    /\ bpc' = "done"
    /\ status_file' = written_status(cb_log')
    /\ UNCHANGED <<g_idx, done_routes, accVars, summaryVars, rerunVars, font_cache>>
    /\ UNCHANGED <<assignVars, parseVars, groupVars, drawVars>>

BuildNext ==
    \/ BuildStart
    \/ RouteDropped
    \/ RouteRendered
    \/ BuildSummary
    \/ BuildSave
    \/ BuildLink

Spec == BuildInit /\ [][BuildNext]_vars

(***************************************************************************)
(* A second invocation on the same input                                   *)
(***************************************************************************)
EntryListsKept(prev) == prev

\* pages = [placeholder]; toc_entries = []; mismatches = []; ...: the lists
\* are created anew on entry, whatever an earlier invocation left in them
EntryLists(prev) == AccStart

\* what the caller keeps of the first invocation
Outcome ==
    IF bpc = "done"
    THEN [returned |-> TRUE, toc_entries |-> result.toc_entries,
          mismatches |-> result.mismatches, page_count |-> Len(output_file.pages)]
    ELSE NoResult

\* the function is entered again with the same input_pdf, output_pdf and
\* date_label: its locals start afresh, the output file, the font cache and
\* the status file are as the first invocation left them
Rerun ==
    /\ bpc \in {"done", "raised"}
    /\ run = 1
    /\ run' = 2
    /\ first_result' = Outcome
    /\ SetAcc(EntryLists(Acc))
    /\ bpc' = "start" /\ g_idx' = 0 /\ done_routes' = 0
    /\ groups' = <<>>
    /\ top10_heavy_totals' = <<>> /\ top10_commercial' = <<>>
    /\ summary_pages' = <<>> /\ summary_link_specs_pages' = <<>>
    /\ summary_start_page' = 0
    /\ cb_log' = <<>>
    /\ result' = NoResult
    /\ UNCHANGED <<page_texts, gpc, output_file, font_cache, status_file>>
    /\ UNCHANGED <<assignVars, parseVars, drawVars>>

\* documents run twice: a route with a mismatch, an unreadable route, a
\* continuation page
RerunPagePool == {Pg.HdrNoBags, Pg.OvMis, Pg.Cont}

RerunDocs == SeqsUpTo(RerunPagePool, 0, MaxPages)

RerunInit == BuildInitIn(RerunDocs)

RerunNext == BuildNext \/ Rerun

SpecRerun == RerunInit /\ [][RerunNext]_vars

(***************************************************************************)
(* The grouped build: properties                                           *)
(***************************************************************************)
InLoopOrAfter == bpc \in {"loop", "saving", "linking", "done"}

AfterSummary == bpc \in {"saving", "linking", "done"}

ParsesHere(g) == ParseGroup(page_texts, g).ok

\* the groups among the first n that parse, in document order
KeptGroups(n) == SelectSeq(SubSeq(groups, 1, n), ParsesHere)

\* start followed by the items of the lists adds[1], adds[2], ..., each of
\* which holds one item or none
Gather(start, adds) ==
    LET hits == {i \in 1..Len(adds) : adds[i] # <<>>}
        nth == [k \in 1..Cardinality(hits) |->
                   CHOOSE i \in hits : Cardinality({j \in hits : j <= i}) = k]
    IN  start \o [k \in 1..Cardinality(hits) |-> Head(adds[nth[k]])]

\* what the loop body appends for each of the groups gs taken alone: the
\* i-th one after i - 1 route pages, which is all the body reads of the lists
StepsAlone(acc, gs) ==
    [i \in 1..Len(gs) |->
        RouteStep([AccStart EXCEPT
                       !.pages = acc.pages \o [j \in 1..(i - 1) |-> acc.pages[1]]],
                  ParseGroup(page_texts, gs[i]), gs[i])]

\* the lists acc extended by what each step appended, in order
Collect(acc, steps) ==
    LET n == Len(steps)
        base == Len(acc.pages)
    IN  [pages |-> acc.pages \o Flatten([i \in 1..n |-> Tail_(steps[i].pages, base + i)]),
         toc_entries |->
             Gather(acc.toc_entries, [i \in 1..n |-> steps[i].toc_entries]),
         mismatches |->
             Gather(acc.mismatches, [i \in 1..n |-> steps[i].mismatches]),
         routes_over_30 |->
             Gather(acc.routes_over_30, [i \in 1..n |-> steps[i].routes_over_30]),
         routes_over_50_overflow |->
             Gather(acc.routes_over_50_overflow,
                    [i \in 1..n |-> steps[i].routes_over_50_overflow]),
         combined_routes |->
             Gather(acc.combined_routes, [i \in 1..n |-> steps[i].combined_routes]),
         route_total_pkgs |->
             Gather(acc.route_total_pkgs, [i \in 1..n |-> steps[i].route_total_pkgs]),
         route_comm_pkgs |->
             Gather(acc.route_comm_pkgs, [i \in 1..n |-> steps[i].route_comm_pkgs])]

\* the loop body applied to each of the given groups, none skipped
Replay(acc, gs) == Collect(acc, StepsAlone(acc, gs))

StagesOf(log) == [k \in 1..Len(log) |-> log[k].stage]

A1_CX12 == <<"A", ".", "1", " ", "(", "C", "X", "1", "2", ")">>

\* C5: for every rendered route, overflow_mismatch holds iff a declared
\* overflow count exists and differs from the assigner's computed overflow
\* sum, and total_mismatch holds iff a declared total exists and differs
\* from bag pkgs + computed overflow sum; the route is in mismatches (and
\* in the result's list) exactly once iff one of the two holds, with the
\* declared/computed pairs and its output_page.  Declared total 50, bag sum
\* 40, overflow sum 8 gives total_mismatch and computed_total 48.
C5_MismatchList ==
    /\ InLoopOrAfter =>
           LET kept == KeptGroups(g_idx)
           IN  /\ Len(toc_entries) = Len(kept)
               /\ \A k \in 1..Len(mismatches) :
                      \E i \in 1..Len(kept) :
                          mismatches[k].output_page = toc_entries[i].output_page
               /\ \A i \in 1..Len(kept) :
                      LET pr == ParseGroup(page_texts, kept[i])
                          computed == SumSeq(assign_overflows(pr.bags, pr.overs).totals)
                          bag_sum == SumSeq([b \in 1..Len(pr.bags) |-> pr.bags[b].pkgs])
                          om == pr.decl_over # None /\ pr.decl_over # computed
                          tm == pr.total_pkgs # None /\ pr.total_pkgs # bag_sum + computed
                          op == toc_entries[i].output_page
                          hits == {k \in 1..Len(mismatches) : mismatches[k].output_page = op}
                      IN  /\ Cardinality(hits) = IF om \/ tm THEN 1 ELSE 0
                          /\ \A k \in hits :
                                 mismatches[k] =
                                     [title |-> toc_entries[i].title,
                                      declared_overflow |-> pr.decl_over,
                                      computed_overflow |-> computed,
                                      declared_total |-> pr.total_pkgs,
                                      computed_total |-> bag_sum + computed,
                                      overflow_mismatch |-> om,
                                      total_mismatch |-> tm,
                                      output_page |-> op]
    /\ bpc = "done" =>
           /\ result.mismatches = mismatches
           /\ result.mismatch_count = Len(mismatches)
    /\ (bpc = "done" /\ page_texts = <<Pg.TotMis>>) =>
           result.mismatches =
               <<[title |-> A1_CX12,
                  declared_overflow |-> None, computed_overflow |-> 8,
                  declared_total |-> 50, computed_total |-> 48,
                  overflow_mismatch |-> FALSE, total_mismatch |-> TRUE,
                  output_page |-> 2]>>

\* a matching route, a route with an overflow mismatch and one with a total
\* mismatch: the last two are listed with their pages
C5_Witness ==
    /\ bpc = "done"
    /\ page_texts = <<Pg.Match, Pg.OvMis, Pg.TotMis>>
    /\ Len(result.mismatches) = 2
    /\ result.mismatches[1].overflow_mismatch /\ ~result.mismatches[1].total_mismatch
    /\ result.mismatches[1].declared_overflow = 5
    /\ result.mismatches[1].computed_overflow = 3
    /\ result.mismatches[1].output_page = 3
    /\ result.mismatches[2].total_mismatch /\ ~result.mismatches[2].overflow_mismatch
    /\ result.mismatches[2].output_page = 4

\* C8: when no input page is a header page the build raises right after
\* grouping: the only callback is "Reading", no route is processed, nothing
\* is written to the output file, nothing is returned and nothing follows.
C8_NoHeaderRaises ==
    bpc # "start" =>
        /\ bpc = "raised" <=> \A i \in 1..Len(page_texts) : ~is_header_page(page_texts[i])
        /\ bpc = "raised" =>
               /\ StagesOf(cb_log) = <<"Reading">>
               /\ g_idx = 0 /\ done_routes = 0
               /\ Acc = AccStart
               /\ summary_pages = <<>>
               /\ output_file = NoFile
               /\ result = NoResult
               /\ ~ENABLED BuildNext

\* three pages, one of them a table page, none a header page
C8_Witness ==
    /\ bpc = "raised"
    /\ page_texts = <<Pg.Blank, Pg.Cont, Pg.Blank>>
    /\ output_file = NoFile

\* C9: the output has 1 + R + S pages, R parsed routes and S >= 1 summary
\* pages: the cover first, the i-th parsed route on page i + 1, which is the
\* output_page of its toc_entries item, then the summary pages; a dropped
\* route takes no page number and the cover replaces the placeholder in
\* place.
C9_PageOrder ==
    LET kept == KeptGroups(g_idx)
        R == Len(kept)
        S == Len(summary_pages)
    IN  /\ InLoopOrAfter =>
               /\ Len(toc_entries) = R
               /\ \A i \in 1..R :
                      /\ pages[i + 1] = [kind |-> "route", ref |-> kept[i][1]]
                      /\ toc_entries[i].output_page = i + 1
        /\ bpc = "loop" =>
               /\ Len(pages) = 1 + R
               /\ pages[1].kind = "placeholder"
        /\ AfterSummary =>
               /\ S >= 1
               /\ Len(pages) = 1 + R + S
               /\ pages[1].kind = "toc"
               /\ \A k \in 1..S : pages[1 + R + k] = [kind |-> "summary", ref |-> k - 1]
               /\ summary_start_page = R + 2
        /\ bpc \in {"linking", "done"} =>
               /\ output_file.written
               /\ output_file.pages = pages
        /\ bpc = "done" => result.toc_entries = toc_entries

\* a long document with an unreadable route in it: two summary pages
C9_Witness ==
    /\ bpc = "done"
    /\ Len(toc_entries) = Len(groups) - 1
    /\ Len(summary_pages) = 2
    /\ Len(output_file.pages) = Len(toc_entries) + 3
    /\ toc_entries[2].output_page = 3

\* C10: a group without a recognised bag row is dropped silently: the lists
\* built by the loop are exactly those built from the parsed groups alone
\* (no page, toc entry, mismatch or summary entry for the dropped group), and
\* the build raises only when there is no group at all.
C10_DroppedSilently ==
    /\ bpc = "loop" => Acc = Replay(AccStart, KeptGroups(g_idx))
    /\ AfterSummary =>
           LET a == Replay(AccStart, KeptGroups(Len(groups)))
           IN  /\ g_idx = Len(groups)
               /\ toc_entries = a.toc_entries
               /\ mismatches = a.mismatches
               /\ SubSeq(pages, 2, Len(a.pages)) = Tail(a.pages)
               /\ routes_over_30 = SortByKey(a.routes_over_30)
               /\ routes_over_50_overflow = SortByKey(a.routes_over_50_overflow)
               /\ top10_heavy_totals = Top10(SortByKey(a.route_total_pkgs))
               /\ top10_commercial = Top10(SortByKey(a.route_comm_pkgs))
               /\ combined_routes = SortByFirstPage(a.combined_routes)
    /\ bpc = "raised" => groups = <<>>

\* a dropped header page between two readable routes
C10_Witness ==
    /\ bpc = "done"
    /\ page_texts = <<Pg.Match, Pg.HdrNoBags, Pg.OvMis>>
    /\ Len(groups) = 3
    /\ Len(result.toc_entries) = 2
    /\ result.toc_entries[2].output_page = 3
    /\ Len(output_file.pages) = 4

\* C11: over one invocation the counters pages_total, pages_done and
\* current_page handed to the progress callback never decrease from one call
\* to the next, whatever mix of parsed and dropped routes the input holds.
C11_CountersMonotone ==
    \A k \in 1..(Len(cb_log) - 1) :
        /\ cb_log[k].pages_total <= cb_log[k + 1].pages_total
        /\ cb_log[k].pages_done <= cb_log[k + 1].pages_done
        /\ cb_log[k].current_page <= cb_log[k + 1].current_page

\* a finished build of a dropped, a parsed and a dropped route: twelve calls,
\* the last with every counter at 3
C11_Witness ==
    /\ bpc = "done"
    /\ page_texts = <<Pg.HdrNoBags, Pg.Match, Pg.HdrNoBags>>
    /\ Len(toc_entries) = 1
    /\ Len(cb_log) = 12
    /\ cb_log[12].pages_total = 3
    /\ cb_log[12].pages_done = 3
    /\ cb_log[12].current_page = 3

\* C26: over one invocation the percent handed to the progress callback
\* never decreases from one call to the next, from the "Reading" call to the
\* "Done" call.
C26_PercentMonotone ==
    \A k \in 1..(Len(cb_log) - 1) : cb_log[k].percent <= cb_log[k + 1].percent

\* C12: _try_add_all_links never raises; when the link library is missing or
\* opening, linking, saving or replacing fails it returns False and the file
\* at pdf_path is still the unlinked PDF written before (only a completely
\* saved linked copy ever replaces it), and the build returns its result.
C12_LinkBestEffort ==
    /\ bpc = "linking" =>
           /\ output_file = [written |-> TRUE, pages |-> pages, linked |-> FALSE]
           /\ \A f \in LinkFailures \ {"none"} :
                  LET r == try_add_all_links(output_file, LinksHere, f)
                  IN  r.ret = FALSE /\ r.file = output_file
           /\ try_add_all_links(output_file, LinksHere, "none").file
                  = [output_file EXCEPT !.linked = TRUE]
           /\ ENABLED BuildLink
    /\ bpc = "done" =>
           /\ output_file \in {[written |-> TRUE, pages |-> pages, linked |-> l] :
                                  l \in BOOLEAN}
           /\ result.returned

\* a build that returned although no link could be added: the file is the
\* unlinked one with all its pages
C12_Witness ==
    /\ bpc = "done"
    /\ page_texts = <<Pg.Match, Pg.OvMis>>
    /\ result.returned
    /\ output_file = [written |-> TRUE, pages |-> pages, linked |-> FALSE]
    /\ Len(output_file.pages) = 4

\* C13: a second invocation on the same page texts returns the same
\* toc_entries and mismatches and writes the same number of pages as the
\* first: nothing the first one left behind (font cache, status file,
\* output file) is read.
C13_Idempotent ==
    run = 2 =>
        /\ bpc = "done" =>
               /\ first_result.returned
               /\ result.toc_entries = first_result.toc_entries
               /\ result.mismatches = first_result.mismatches
               /\ output_file.written
               /\ Len(output_file.pages) = first_result.page_count
        /\ bpc = "raised" => ~first_result.returned

\* the second invocation has finished on a document with two mismatching
\* routes and an unreadable one, over the files the first one left
C13_Witness ==
    /\ run = 2
    /\ bpc = "done"
    /\ page_texts = <<Pg.OvMis, Pg.HdrNoBags, Pg.OvMis>>
    /\ Len(result.mismatches) = 2
    /\ result.toc_entries = first_result.toc_entries
    /\ first_result.page_count = 4
    /\ SummaryFonts \subseteq font_cache

(***************************************************************************)
(* render_toc_page: wave order, layout and link specs                      *)
(***************************************************************************)
MaxEntries == 4
ManyRoutes == 50

\* the elements of xs in the order of their ranks 1..Len(xs)
InRankOrder(xs, rank) ==
    [p \in 1..Len(rank) |-> xs[CHOOSE i \in 1..Len(rank) : rank[i] = p]]

\* a stable list.sort(key=...) of the pairs <<key, item>> ks: a pair goes
\* after those with a smaller key and after the earlier ones with an equal key
StableSort(ks, Less(_, _)) ==
    InRankOrder(ks, [i \in 1..Len(ks) |->
                        1 + Cardinality({j \in 1..Len(ks) :
                                \/ Less(ks[j][1], ks[i][1])
                                \/ ~Less(ks[i][1], ks[j][1]) /\ j < i})])

\* the items of a list of pairs <<key, item>>
ItemsOf(ks) == [k \in 1..Len(ks) |-> ks[k][2]]

\* (\d{1,2}):(\d{2}) matched at position i of tl: the two groups, or <<>>
TimeAt(tl, i) ==
    IF /\ i + 4 <= Len(tl)
       /\ tl[i] \in Digits /\ tl[i + 1] \in Digits /\ tl[i + 2] = ":"
       /\ tl[i + 3] \in Digits /\ tl[i + 4] \in Digits
    THEN <<SubSeq(tl, i, i + 1), SubSeq(tl, i + 3, i + 4)>>
    ELSE IF /\ i + 3 <= Len(tl)
            /\ tl[i] \in Digits /\ tl[i + 1] = ":"
            /\ tl[i + 2] \in Digits /\ tl[i + 3] \in Digits
    THEN <<SubSeq(tl, i, i), SubSeq(tl, i + 2, i + 3)>>
    ELSE <<>>

\* re.search(r"(\d{1,2}):(\d{2})", tl): <<int(group 1), int(group 2)>> of the
\* leftmost match, <<>> without one
TimeSearch(tl) ==
    LET hits == {i \in 1..Len(tl) : TimeAt(tl, i) # <<>>}
    IN  IF hits = {} THEN <<>>
        ELSE <<IntOf(TimeAt(tl, Least(hits))[1]), IntOf(TimeAt(tl, Least(hits))[2])>>

\* wave_sort_key(e)
wave_sort_key(e) ==
    LET m == TimeSearch(e.time_label)
    IN  IF m = <<>> THEN <<999, 99, e.title>> ELSE <<m[1], m[2], e.title>>

\* key < key for two keys of wave_sort_key
WaveLess(ka, kb) ==
    \/ ka[1] < kb[1]
    \/ ka[1] = kb[1] /\ ka[2] < kb[2]
    \/ ka[1] = kb[1] /\ ka[2] = kb[2] /\ StrLess(ka[3], kb[3])

DigitSeq == <<"0", "1", "2", "3", "4", "5", "6", "7", "8", "9">>

\* f"{n:02d}" for n below 100
Pad2(n) == <<DigitSeq[(n \div 10) + 1], DigitSeq[(n % 10) + 1]>>

\* _wave_label(time_label)
wave_label(tl) ==
    LET m == TimeSearch(tl)
    IN  IF m = <<>>
        THEN <<"W", "a", "v", "e", ":", " ", "?", "?", ":", "?", "?">>
        ELSE <<"W", "a", "v", "e", ":", " ">> \o Pad2(m[1]) \o <<":">> \o Pad2(m[2])

\* re.findall(r"\d+|\D+", s) with each part turned into (1, int) or
\* (0, lowered text)
RECURSIVE natural_key(_)
natural_key(s) ==
    IF s = <<>> THEN <<>>
    ELSE LET k == IF Head(s) \in Digits THEN LeadLen(s, Digits)
                  ELSE LeadLen(s, {CodeOrder[i] : i \in 1..Len(CodeOrder)} \ Digits)
             part == IF Head(s) \in Digits THEN <<1, IntOf(SubSeq(s, 1, k))>>
                     ELSE <<0, LowerTok(SubSeq(s, 1, k))>>
         IN  <<part>> \o natural_key(Tail_(s, k + 1))

\* (tag, value) < (tag, value)
PartLess(p, q) ==
    \/ p[1] < q[1]
    \/ p[1] = q[1] /\ (IF p[1] = 1 THEN p[2] < q[2] ELSE StrLess(p[2], q[2]))

\* list < list, element by element
KeyListLess(a, b) ==
    LET n == IF Len(a) < Len(b) THEN Len(a) ELSE Len(b)
        diff == {i \in 1..n : a[i] # b[i]}
    IN  IF diff = {} THEN Len(a) < Len(b) ELSE PartLess(a[Least(diff)], b[Least(diff)])

\* 0 if t[:1].isalpha() else 1
alpha_first(t) == IF t # <<>> /\ t[1] \in Upper \cup Lower THEN 0 ELSE 1

\* _toc_item_key(e)
toc_item_key(e) == <<alpha_first(e.title), natural_key(e.title)>>

\* key < key for two keys of _toc_item_key
TocItemLess(ka, kb) ==
    \/ ka[1] < kb[1]
    \/ ka[1] = kb[1] /\ KeyListLess(ka[2], kb[2])

\* grouped: the sorted entries by wave label, the labels in the order they
\* first appear; each group is then sorted by _toc_item_key
grouped_by_label(sorted, labels) ==
    LET n == Len(labels)
        firsts == {k \in 1..n : \A j \in 1..(k - 1) : labels[j] # labels[k]}
        nth == [w \in 1..Cardinality(firsts) |->
                   CHOOSE k \in firsts : Cardinality({j \in firsts : j <= k}) = w]
    IN  [w \in 1..Cardinality(firsts) |->
            LET items == SelectSeq(sorted,
                                   LAMBDA e : wave_label(e.time_label) = labels[nth[w]])
            IN  [label |-> labels[nth[w]],
                 items |-> ItemsOf(StableSort([k \in 1..Len(items) |->
                                                  <<toc_item_key(items[k]), items[k]>>],
                                              TocItemLess))]]

\* wave_blocks: entries.sort(key=wave_sort_key), then the grouping
wave_blocks_of(entries) ==
    LET sorted == ItemsOf(StableSort([k \in 1..Len(entries) |->
                                         <<wave_sort_key(entries[k]), entries[k]>>],
                                     WaveLess))
    IN  grouped_by_label(sorted, [k \in 1..Len(sorted) |-> wave_label(sorted[k].time_label)])

\* the cover's geometry: y below the title block, bottom_limit, available_h,
\* cols, gap_y, col_w
TocY == 120 + 82 + 46 + 40 + 22
bottom_limit == PAGE_H_PX - 110
available_h == IF bottom_limit - TocY > 10 THEN bottom_limit - TocY ELSE 10
cols == 3
gap_y == 22
col_w == (1500 - 36 * (cols - 1)) \div cols

\* the metrics of the bold condensed face at a size: the height of "Hg" and
\* the width of a text, about 0.6 of the size per character
text_h(size) == size
text_w(size, str) == (Len(str) * size * 6) \div 10

\* max(spx(24), int(round(row_size * 1.22)))
wave_size_of(row_size) ==
    LET q == (row_size * 122) \div 100
        r == (row_size * 122) % 100
        rounded == IF r < 50 THEN q ELSE IF r > 50 THEN q + 1
                   ELSE IF q % 2 = 0 THEN q ELSE q + 1
    IN  IF rounded > 24 THEN rounded ELSE 24

MaxOf(S) == CHOOSE x \in S : \A y \in S : y <= x

\* one pass of the search loop: the grid for row_size
grid_for(blocks, row_size) ==
    LET line_h == text_h(row_size) + 6
        header_h == text_h(wave_size_of(row_size)) + 8
        nw == Len(blocks)
        heights == [w \in 1..nw |->
                       6 + header_h
                       + (IF Len(blocks[w].items) > 1 THEN Len(blocks[w].items) ELSE 1) * line_h
                       + 4]
        rows == (nw + cols - 1) \div cols
        row_heights == [r \in 1..rows |->
                           MaxOf({heights[w] : w \in {v \in 1..nw : (v - 1) \div cols = r - 1}})]
        total_grid_h == SumSeq(row_heights) + gap_y * (IF rows > 1 THEN rows - 1 ELSE 0)
        too_wide == \E w \in 1..nw :
                        \/ text_w(wave_size_of(row_size), blocks[w].label) > col_w
                        \/ \E k \in 1..Len(blocks[w].items) :
                               text_w(row_size, blocks[w].items[k].title) > col_w
    IN  [fits |-> total_grid_h <= available_h /\ ~too_wide,
         line_h |-> line_h, header_h |-> header_h, rows |-> rows,
         row_heights |-> row_heights, total_grid_h |-> total_grid_h]

\* best: the grid of the first row_size of range(34, 16, -1) that fits, else
\* the fixed fallback whose row heights are 0
best_grid(blocks) ==
    LET fitting == {z \in 17..34 : grid_for(blocks, z).fits}
        rows == (Len(blocks) + cols - 1) \div cols
    IN  IF fitting # {} THEN grid_for(blocks, MaxOf(fitting))
        ELSE [fits |-> FALSE, line_h |-> text_h(22) + 6, header_h |-> text_h(28) + 8,
              rows |-> rows, row_heights |-> [r \in 1..rows |-> 0],
              total_grid_h |-> available_h]

toc_rows_above_available(best, cur) ==
    LET over == {r \in 1..best.rows : cur[r] + best.row_heights[r] > available_h}
    IN  IF over = {} THEN best.rows ELSE Least(over) - 1

\* the rows the drawing loop reaches: it stops at the first row r with
\* cur_y + row_heights[r] > bottom_limit
toc_rows_drawn(best, cur) ==
    LET over == {r \in 1..best.rows : cur[r] + best.row_heights[r] > bottom_limit}
    IN  IF over = {} THEN best.rows ELSE Least(over) - 1

\* render_toc_page(date_label, route_entries): the wave blocks and the link
\* specs in the order they are appended (rect left out)
render_toc_page(entries) ==
    LET blocks == wave_blocks_of(entries)
        best == best_grid(blocks)
        extra == IF available_h - best.total_grid_h > 0
                 THEN available_h - best.total_grid_h ELSE 0
        grid_start_y == TocY + extra \div 2
        cur == [r \in 1..best.rows |->
                   grid_start_y + SumSeq([q \in 1..(r - 1) |-> best.row_heights[q] + gap_y])]
        drawn == {w \in 1..Len(blocks) : (w - 1) \div cols < toc_rows_drawn(best, cur)}
        specs(w) == IF w \in drawn
                    THEN [k \in 1..Len(blocks[w].items) |->
                             [page |-> blocks[w].items[k].output_page, page_num |-> 1]]
                    ELSE <<>>
    IN  [wave_blocks |-> blocks,
         fits |-> best.fits,
         link_specs |-> IF blocks = <<>> THEN <<>>
                        ELSE Flatten([w \in 1..Len(blocks) |-> specs(w)])]

\* what a route brings to the cover: its title and its wave time
Tm ==
    [t1100am |-> <<"1", "1", ":", "0", "0", " ", "A", "M">>,
     t100pm |-> <<"1", ":", "0", "0", " ", "P", "M">>,
     t930am |-> <<"9", ":", "3", "0", " ", "A", "M">>,
     t100am |-> <<"1", ":", "0", "0", " ", "A", "M">>]

B2_TX7 == <<"B", ".", "2", " ", "(", "T", "X", "7", ")">>

A10_CX3 == <<"A", ".", "1", "0", " ", "(", "C", "X", "3", ")">>

EntryKinds ==
    {<<A1_CX12, Tm.t1100am>>, <<B2_TX7, Tm.t100pm>>, <<A1_CX12, <<>>>>,
     <<B2_TX7, Tm.t930am>>, <<A10_CX3, Tm.t100am>>}

\* toc_entries as the build makes them: the k-th entry is on output page k + 1
EntriesOfKinds(ks) ==
    [k \in 1..Len(ks) |->
        [title |-> ks[k][1], output_page |-> k + 1, time_label |-> ks[k][2]]]

\* a route code too long for a column at the largest sizes
LongTitle == Rep("K", 38) \o <<".", "7">>

\* covers with more routes in one wave than fit at the largest size, with more
\* than fit at any size, and with a title wider than a column
LongCovers ==
    {Rep(<<A1_CX12, Tm.t1100am>>, ManyRoutes),
     Rep(<<B2_TX7, Tm.t100pm>>, 2 * ManyRoutes),
     <<<<LongTitle, Tm.t930am>>, <<B2_TX7, Tm.t100pm>>>>}

TocInputs == {EntriesOfKinds(ks) : ks \in SeqsUpTo(EntryKinds, 0, MaxEntries) \cup LongCovers}

TocInit ==
    /\ AssignIdle
    /\ ParseIdle
    /\ GroupIdle
    /\ BuildIdle
    /\ ToteIdle
    /\ CallIdle
    /\ route_entries \in TocInputs
    /\ toc_result = <<>>
    /\ tpc = "call"

\* toc_img, toc_link_specs = render_toc_page(date_label, route_entries)
TocCall ==
    /\ tpc = "call"
    /\ toc_result' = render_toc_page(route_entries)
    /\ tpc' = "returned"
    /\ UNCHANGED <<route_entries, toteVars, callVars>>
    /\ UNCHANGED <<assignVars, parseVars, groupVars, buildVars>>

TocNext == TocCall

SpecToc == TocInit /\ [][TocNext]_vars

C14_WitnessFallback ==
    /\ tpc = "returned"
    /\ Len(route_entries) = 2 * ManyRoutes
    /\ ~toc_result.fits
    /\ Len(toc_result.link_specs) = 2 * ManyRoutes

\* minutes since midnight of a wave time "H:MM AM" or "H:MM PM"
TimeOfDay(tl) ==
    LET m == TimeSearch(tl)
        pm == Len(tl) >= 2 /\ SubSeq(tl, Len(tl) - 1, Len(tl)) = <<"P", "M">>
    IN  ((m[1] % 12) + (IF pm THEN 12 ELSE 0)) * 60 + m[2]

\* the position of the wave section that lists the route of output page pg
WaveOf(pg) ==
    CHOOSE w \in 1..Len(toc_result.wave_blocks) :
        \E k \in 1..Len(toc_result.wave_blocks[w].items) :
            toc_result.wave_blocks[w].items[k].output_page = pg

\* C17: the wave sections are in chronological order of their time of day,
\* AM/PM included: a route with an earlier wave time is never in a later
\* section than a route with a later wave time.
C17_Chronological ==
    tpc = "returned" =>
        \A a, b \in 1..Len(route_entries) :
            (/\ route_entries[a].time_label # <<>>
             /\ route_entries[b].time_label # <<>>
             /\ TimeOfDay(route_entries[a].time_label) < TimeOfDay(route_entries[b].time_label))
            => WaveOf(route_entries[a].output_page) <= WaveOf(route_entries[b].output_page)

\* C22: two routes with a wave time are listed in the same wave section
\* exactly if their wave times are the same time of day, AM/PM included.
C22_SameWaveSameTime ==
    tpc = "returned" =>
        \A a, b \in 1..Len(route_entries) :
            (/\ route_entries[a].time_label # <<>>
             /\ route_entries[b].time_label # <<>>)
            => ((WaveOf(route_entries[a].output_page) = WaveOf(route_entries[b].output_page))
                    <=> (TimeOfDay(route_entries[a].time_label)
                             = TimeOfDay(route_entries[b].time_label)))

(***************************************************************************)
(* Summary pages: properties                                               *)
(***************************************************************************)
\* the height the items of a summary page take at least
DrawnHeight(pg) ==
    SumSeq([i \in 1..Len(pg) |-> IF pg[i][1] = "row" THEN RowH ELSE SectionH])

\* the last section header drawn on pg before item i, "" if there is none
HeaderBefore(pg, i) ==
    LET hs == {j \in 1..(i - 1) : pg[j][1] = "section"}
    IN  IF hs = {} THEN "" ELSE pg[CHOOSE j \in hs : \A h \in hs : h <= j][2]

\* C15: a row that does not fit under the bottom guard goes to a new page
\* whose first item is the header of the row's section; so every row of every
\* summary page has the header of its own section above it on that page, and
\* no page is drawn past the bottom guard.
C15_HeaderRepeated ==
    AfterSummary =>
        \A p \in 1..Len(summary_pages) :
            LET pg == summary_pages[p]
            IN  /\ \A i \in 1..Len(pg) :
                       pg[i][1] = "row" => HeaderBefore(pg, i) = pg[i][2]
                /\ TopY + DrawnHeight(pg) <= PAGE_H_PX - bottom_guard
                /\ (p > 1 /\ pg # <<>> /\ pg[1][1] = "section"
                        /\ summary_pages[p - 1][Len(summary_pages[p - 1])][1] = "row"
                        /\ summary_pages[p - 1][Len(summary_pages[p - 1])][2] = pg[1][2])
                   => /\ Len(pg) >= 2
                      /\ pg[2][1] = "row"
                      /\ pg[2][2] = pg[1][2]

\* the commercial section runs over the first page by a row: the second page
\* starts with the repeated header and goes on with the row
C15_Witness ==
    /\ bpc = "done"
    /\ Len(page_texts) = LongReps
    /\ Len(summary_pages) = 2
    /\ summary_pages[1][Len(summary_pages[1])] # summary_pages[2][2]
    /\ summary_pages[1][Len(summary_pages[1])][1] = "row"
    /\ summary_pages[1][Len(summary_pages[1])][2] = "Routes with Heaviest Commercial"
    /\ summary_pages[2][1] = <<"section", "Routes with Heaviest Commercial", 0>>
    /\ summary_pages[2][2][1] = "row"
    /\ summary_pages[2][2][2] = "Routes with Heaviest Commercial"

(***************************************************************************)
(* draw_tote: the grid of bag tiles                                        *)
(***************************************************************************)
MaxTote == 45

ROWS_GRID == 3

CONTENT_W_PX == 1500

\* cols = max(1, math.ceil(n / ROWS_GRID))
tote_cols(n) ==
    LET q == n \div ROWS_GRID
        c == IF n % ROWS_GRID = 0 THEN q ELSE q + 1
    IN  IF c < 1 THEN 1 ELSE c

\* col_x0: the left edge of each column; the first `extra` columns are one
\* pixel wider
col_x0(ncols) ==
    LET pad_x == 6
        inner_w == CONTENT_W_PX - (ncols - 1) * pad_x
        base_w == inner_w \div ncols
        extra == inner_w - base_w * ncols
        col_ws == [i \in 1..ncols |-> base_w + (IF i - 1 < extra THEN 1 ELSE 0)]
    IN  [c \in 1..ncols |-> SumSeq(SubSeq(col_ws, 1, c - 1)) + (c - 1) * pad_x]

tote_positions_ltr(ncols) ==
    Flatten([c \in 1..ncols |-> [r \in 1..ROWS_GRID |-> <<c - 1, r - 1>>]])

\* positions: for col in range(cols - 1, -1, -1): for row in range(ROWS_GRID)
tote_positions(ncols) ==
    Flatten([c \in 1..ncols |-> [r \in 1..ROWS_GRID |-> <<ncols - c, r - 1>>]])

\* the cell and the left edge of tile i (0-based) of n
tote_tile(n, i) ==
    LET ncols == tote_cols(n)
        pos == tote_positions(ncols)[i + 1]
    IN  [col |-> pos[1], row |-> pos[2], x0 |-> col_x0(ncols)[pos[1] + 1]]

ToteInit ==
    /\ AssignIdle
    /\ ParseIdle
    /\ GroupIdle
    /\ BuildIdle
    /\ TocIdle
    /\ CallIdle
    /\ tote_n \in 0..MaxTote
    /\ tote_cells = <<>>
    /\ dpc = "call"

\* if n == 0: return Image.new(...)
ToteEmpty ==
    /\ dpc = "call"
    /\ tote_n = 0
    /\ dpc' = "returned"
    /\ UNCHANGED <<tote_n, tote_cells, tocVars, callVars>>
    /\ UNCHANGED <<assignVars, parseVars, groupVars, buildVars>>

\* one pass of: for i in range(n): col, row = positions[i]; ...
ToteTile ==
    /\ dpc \in {"call", "tiles"}
    /\ Len(tote_cells) < tote_n
    /\ tote_cells' = Append(tote_cells, tote_tile(tote_n, Len(tote_cells)))
    /\ dpc' = "tiles"
    /\ UNCHANGED <<tote_n, tocVars, callVars>>
    /\ UNCHANGED <<assignVars, parseVars, groupVars, buildVars>>

\* return img
ToteReturn ==
    /\ dpc = "tiles"
    /\ Len(tote_cells) = tote_n
    /\ dpc' = "returned"
    /\ UNCHANGED <<tote_n, tote_cells, tocVars, callVars>>
    /\ UNCHANGED <<assignVars, parseVars, groupVars, buildVars>>

ToteNext == ToteEmpty \/ ToteTile \/ ToteReturn

SpecTote == ToteInit /\ [][ToteNext]_vars

\* C16: n >= 1 bags take ceil(n / 3) columns of 3 rows, filled from the right
\* column to the left and from the top down: bag i is in column
\* ceil(n/3) - 1 - floor(i/3), row i mod 3, no two bags share a cell, and the
\* first bag is in the rightmost column.
C16_ToteGrid ==
    (dpc \in {"tiles", "returned"} /\ tote_n >= 1) =>
        LET c == (tote_n + 2) \div 3
        IN  /\ tote_cols(tote_n) = c
            /\ dpc = "returned" => Len(tote_cells) = tote_n
            /\ \A k \in 1..Len(tote_cells) :
                   /\ tote_cells[k].col = c - 1 - ((k - 1) \div 3)
                   /\ tote_cells[k].row = (k - 1) % 3
                   /\ tote_cells[k].col \in 0..(c - 1)
                   /\ tote_cells[k].x0 <= tote_cells[1].x0
            /\ \A j, k \in 1..Len(tote_cells) :
                   (tote_cells[j].col = tote_cells[k].col
                        /\ tote_cells[j].row = tote_cells[k].row) => j = k

\* 45 bags: 15 columns, the first bag top right, the last bottom left
C16_Witness ==
    /\ dpc = "returned"
    /\ tote_n = 45
    /\ tote_cols(tote_n) = 15
    /\ Len(tote_cells) = 45
    /\ tote_cells[1].col = 14 /\ tote_cells[1].row = 0
    /\ tote_cells[4].col = 13 /\ tote_cells[4].row = 0
    /\ tote_cells[45].col = 0 /\ tote_cells[45].row = 2 /\ tote_cells[45].x0 = 0

(***************************************************************************)
(* Overflow assignment: the key of a zone                                  *)
(***************************************************************************)
\* C18: the (core, letter) key is taken after the leading "<Letter>-" prefix
\* is stripped: the core holds no prefix, and a bag zone and an overflow zone
\* that differ only in the prefix have the same key.
C18_KeyWithoutPrefix ==
    apc = "returned" =>
        \A i \in 1..Len(bags), k \in 1..Len(overs) :
            /\ FindChar(split_zone_for_index(overs[k][1])[1], "-") = 0
            /\ (bags[i].sort_zone # <<>>
                   /\ label_core(bags[i].sort_zone) = label_core(overs[k][1]))
               => split_zone_for_index(bags[i].sort_zone)
                      = split_zone_for_index(overs[k][1])

(***************************************************************************)
(* Route parser: rows with an unreadable number                            *)
(***************************************************************************)
\* a table line of the shape "idx color bag pkgs"
IsPlainBagRow(l) == Len(l) = 4 /\ isdigit(l[1]) /\ l[2] \in BAG_COLORS_ALLOWED

\* C19: a line of a bag-row shape whose bag number, pkgs or count is no
\* number does not end the route and is still recorded: the route is returned
\* and lists a bag with the line's index, color and pkgs.
C19_RowKeptFieldAbsent ==
    (ppc = "returned" /\ Len(text) >= 2 /\ HasTableHeader(text[2])) =>
        \A k \in 3..Len(text) :
            IsPlainBagRow(text[k]) =>
                /\ parsed.ok
                /\ \E j \in 1..Len(parsed.bags) :
                       /\ parsed.bags[j].idx = parse_int_safe(text[k][1])
                       /\ parsed.bags[j].bag[1] = text[k][2]
                       /\ parsed.bags[j].pkgs = parse_int_safe(text[k][4])

(***************************************************************************)
(* Build: the returned group count                                         *)
(***************************************************************************)
\* C20: a route group without a recognized bag row is not counted: the
\* record's group_count is the number of routes rendered, len(toc_entries).
C20_GroupCountRendered ==
    bpc = "done" => result.group_count = Len(result.toc_entries)

(***************************************************************************)
(* render_summary_pages called on its own                                  *)
(***************************************************************************)
MaxSumRows == 2

\* n mismatch payloads; of a payload the rows use output_page
MismatchRows(n) == [k \in 1..n |-> [output_page |-> k + 1]]

\* n tuples (count, title, output_page)
RouteRows(n) == [k \in 1..n |-> <<0, <<>>, k + 1>>]

\* summaries that run over a page: a header drawn as the last item of the
\* first page, a first page filled with rows, a row too many, and a second
\* page that the tenth row of the fourth section fills to the limit
LongSummaries ==
    {<<74, 1, 0, 0, 0>>, <<76, 0, 0, 0, 0>>, <<77, 0, 0, 0, 0>>, <<136, 0, 0, 10, 0>>}

SumCounts == [1..5 -> 0..MaxSumRows] \cup LongSummaries

SumArgs(c) ==
    [mismatches |-> MismatchRows(c[1]),
     routes_over_30 |-> RouteRows(c[2]),
     routes_over_50_overflow |-> RouteRows(c[3]),
     top10_heavy_totals |-> RouteRows(c[4]),
     top10_commercial |-> RouteRows(c[5])]

SumInit ==
    /\ AssignIdle
    /\ ParseIdle
    /\ GroupIdle
    /\ BuildIdle
    /\ TocIdle
    /\ ToteIdle
    /\ CompIdle
    /\ JobIdle
    /\ sum_args \in {SumArgs(c) : c \in SumCounts}
    /\ sum_result = <<>>
    /\ spc = "call"

\* summary_pages, summary_link_specs_pages = render_summary_pages(...)
SumCall ==
    /\ spc = "call"
    /\ sum_result' = render_summary_pages(sum_args.mismatches, sum_args.routes_over_30,
                                          sum_args.routes_over_50_overflow,
                                          sum_args.top10_heavy_totals,
                                          sum_args.top10_commercial)
    /\ spc' = "returned"
    /\ UNCHANGED <<sum_args, compVars, jobVars, tocVars, toteVars>>
    /\ UNCHANGED <<assignVars, parseVars, groupVars, buildVars>>

SumNext == SumCall

SpecSummary == SumInit /\ [][SumNext]_vars

\* C21: no summary page is empty: _ensure_space starts a new page only when
\* y + needed_h is strictly above the limit (a row that ends exactly at the
\* limit stays on the page), each new page gets an item drawn on it, and so
\* every returned page, the last included, holds a header, a row or the OK
\* line.
C21_NoEmptyPage ==
    spc = "returned" =>
        /\ \A k \in 1..Len(sum_result.space_log) :
               sum_result.space_log[k].pushed
                   <=> (sum_result.space_log[k].y + sum_result.space_log[k].needed_h
                            > PAGE_H_PX - bottom_guard)
        /\ Len(sum_result.pages)
               = 1 + Cardinality({k \in 1..Len(sum_result.space_log) :
                                     sum_result.space_log[k].pushed})
        /\ \A p \in 1..Len(sum_result.pages) : sum_result.pages[p] # <<>>

\* the tenth row of the fourth section ends exactly at the limit of the
\* second page and is drawn there; the fifth header opens a third page
C21_Witness ==
    /\ spc = "returned"
    /\ Len(sum_args.mismatches) = 136
    /\ Len(sum_result.pages) = 3
    /\ \E k \in 1..Len(sum_result.space_log) :
           /\ ~sum_result.space_log[k].pushed
           /\ sum_result.space_log[k].needed_h = RowH
           /\ sum_result.space_log[k].y + RowH = PAGE_H_PX - bottom_guard
    /\ sum_result.pages[3] = <<<<"section", "Routes with Heaviest Commercial", 0>>>>

\* the first page of the summary that holds an item of this kind and section
FirstPageWith(kind, title) ==
    Least({p \in 1..Len(sum_result.pages) :
              \E i \in 1..Len(sum_result.pages[p]) :
                  /\ sum_result.pages[p][i][1] = kind
                  /\ sum_result.pages[p][i][2] = title})

SectionsWithRows ==
    UNION {{sum_result.pages[p][i][2] :
               i \in {j \in 1..Len(sum_result.pages[p]) : sum_result.pages[p][j][1] = "row"}} :
           p \in 1..Len(sum_result.pages)}

\* C28: no section header is orphaned: the first row of a section that has
\* rows is on the page where the section's header is first drawn.
C28_HeaderWithFirstRow ==
    spc = "returned" =>
        \A t \in SectionsWithRows : FirstPageWith("row", t) = FirstPageWith("section", t)

(***************************************************************************)
(* Build: the links of the summary pages                                   *)
(***************************************************************************)
IsRow(item) == item[1] = "row"

\* C24: each row of a summary page has one link spec to its route's page,
\* the specs are kept page by page in step with the summary pages, summary
\* page k (0-based) is page summary_start_page + k of the document with
\* summary_start_page = R + 2 for R rendered routes, and each row's link is
\* inserted on the page the row is drawn on.
C24_SummaryLinks ==
    bpc \in {"linking", "done"} =>
        LET ins == summary_links_inserted(Len(output_file.pages), summary_start_page,
                                          summary_link_specs_pages)
        IN  /\ summary_start_page = Len(toc_entries) + 2
            /\ Len(summary_link_specs_pages) = Len(summary_pages)
            /\ Len(ins) = SumSeq([k \in 1..Len(summary_pages) |->
                                     Len(SelectSeq(summary_pages[k], IsRow))])
            /\ \A k \in 1..Len(summary_pages) :
                   LET rows == SelectSeq(summary_pages[k], IsRow)
                       here == SelectSeq(ins, LAMBDA l : l.from = Len(toc_entries) + k)
                   IN  /\ output_file.pages[Len(toc_entries) + 1 + k]
                              = [kind |-> "summary", ref |-> k - 1]
                       /\ Len(summary_link_specs_pages[k]) = Len(rows)
                       /\ Len(here) = Len(rows)
                       /\ \A j \in 1..Len(rows) :
                              /\ summary_link_specs_pages[k][j] = rows[j][3]
                              /\ here[j].to = rows[j][3] - 1
                              /\ \E e \in 1..Len(toc_entries) :
                                     toc_entries[e].output_page = rows[j][3]

\* a summary of two pages: the rows of the second page are linked from the
\* last page of the document
C24_Witness ==
    /\ bpc = "linking"
    /\ Len(toc_entries) = LongReps
    /\ Len(summary_pages) = 2
    /\ Len(output_file.pages) = LongReps + 3
    /\ summary_link_specs_pages[2] # <<>>
    /\ \E l \in {summary_links_inserted(Len(output_file.pages), summary_start_page,
                                        summary_link_specs_pages)[i] :
                    i \in 1..Len(summary_links_inserted(Len(output_file.pages),
                                     summary_start_page, summary_link_specs_pages))} :
           l.from = LongReps + 2 /\ l.to = summary_link_specs_pages[2][1] - 1

(***************************************************************************)
(* The composition of a route page: table above tote                       *)
(***************************************************************************)
MaxCompRows == 40

PAGE_W_PX == 1700

MARGIN_PX == 100

TOP_MARGIN_PX == 100

BOTTOM_MARGIN_PX == 100

GAP_PX == 14

\* the chips of the tallest tile of a tote row, in pixels (0: no chip)
ChipHeights == {0, 40, 84}

\* render_table: (width, height) of the image of a route with n rows
table_size(n) == <<CONTENT_W_PX, 54 + (n + 2) * 64 + 22 * 2>>

\* tile_w = max(col_ws)
tile_w(ncols) ==
    LET inner_w == CONTENT_W_PX - (ncols - 1) * 6
        base_w == inner_w \div ncols
    IN  base_w + (IF inner_w - base_w * ncols > 0 THEN 1 ELSE 0)

\* measure_tile_heights: base_h + (spx(4) if toks else 0) + total_h + spx(10)
tile_height(w, chip_h) ==
    (w * 55) \div 100 + (IF chip_h > 0 THEN 4 ELSE 0) + chip_h + 10

\* draw_tote: (width, height) of the image of n tiles whose rows are each as
\* high as a tile with chips of chip_h
tote_size(n, chip_h) ==
    IF n = 0 THEN <<CONTENT_W_PX, 10>>
    ELSE <<CONTENT_W_PX,
           (IF n < ROWS_GRID THEN n ELSE ROWS_GRID) * tile_height(tile_w(tote_cols(n)), chip_h)
               + 8 * (ROWS_GRID - 1)>>

scaled_without_gap(dim, avail, needed_h) ==
    IF (dim * avail) \div (needed_h - GAP_PX) < 1 THEN 1
    ELSE (dim * avail) \div (needed_h - GAP_PX)

\* max(1, int(dim * scale)) with scale = available_h / float(needed_h)
scaled(dim, avail, needed_h) ==
    IF (dim * avail) \div needed_h < 1 THEN 1 ELSE (dim * avail) \div needed_h

\* the sizes after the resize and the corners the two images are pasted at
compose(table_img, tote_img) ==
    LET avail == PAGE_H_PX - TOP_MARGIN_PX - BOTTOM_MARGIN_PX
        needed_h == table_img[2] + GAP_PX + tote_img[2]
        resize == needed_h > avail /\ needed_h > 0
        tbl == IF resize
               THEN <<scaled(table_img[1], avail, needed_h), scaled(table_img[2], avail, needed_h)>>
               ELSE table_img
        tote == IF resize
                THEN <<scaled(tote_img[1], avail, needed_h), scaled(tote_img[2], avail, needed_h)>>
                ELSE tote_img
    IN  [resized |-> resize,
         table |-> tbl,
         tote |-> tote,
         x_tbl |-> MARGIN_PX + (CONTENT_W_PX - tbl[1]) \div 2,
         y_tbl |-> TOP_MARGIN_PX,
         x_tote |-> MARGIN_PX + (CONTENT_W_PX - tote[1]) \div 2,
         y_tote |-> TOP_MARGIN_PX + tbl[2] + GAP_PX]

CompInit ==
    /\ AssignIdle
    /\ ParseIdle
    /\ GroupIdle
    /\ BuildIdle
    /\ TocIdle
    /\ ToteIdle
    /\ SumIdle
    /\ JobIdle
    /\ \E n \in 0..MaxCompRows, c \in ChipHeights :
           comp_in = [n |-> n, chip_h |-> c,
                      table |-> table_size(n), tote |-> tote_size(n, c)]
    /\ comp_out = <<>>
    /\ cpc = "call"

\* table_img = render_table(...); tote_img = draw_tote(df, bags); the resize
\* and the two pastes
ComposePage ==
    /\ cpc = "call"
    /\ comp_out' = compose(comp_in.table, comp_in.tote)
    /\ cpc' = "returned"
    /\ UNCHANGED <<comp_in, tocVars, toteVars, sumVars, jobVars>>
    /\ UNCHANGED <<assignVars, parseVars, groupVars, buildVars>>

CompNext == ComposePage

SpecCompose == CompInit /\ [][CompNext]_vars

\* new is old * avail / needed_h cut to a whole number, and at least 1
InRatio(new, old, avail, needed_h) ==
    \/ new * needed_h <= old * avail /\ old * avail < (new + 1) * needed_h
    \/ new = 1 /\ old * avail < needed_h

\* C23: if table height + gap + tote height exceeds the available height both
\* images are resized by the ratio available / needed, every new side is at
\* least one pixel, and both images lie within the page; otherwise neither
\* image is resized.
C23_ResizeToFit ==
    cpc = "returned" =>
        LET avail == PAGE_H_PX - TOP_MARGIN_PX - BOTTOM_MARGIN_PX
            needed_h == comp_in.table[2] + GAP_PX + comp_in.tote[2]
        IN  /\ comp_out.resized <=> needed_h > avail
            /\ needed_h <= avail =>
                   comp_out.table = comp_in.table /\ comp_out.tote = comp_in.tote
            /\ needed_h > avail =>
                   \A d \in 1..2 :
                       /\ InRatio(comp_out.table[d], comp_in.table[d], avail, needed_h)
                       /\ InRatio(comp_out.tote[d], comp_in.tote[d], avail, needed_h)
            /\ \A d \in 1..2 : comp_out.table[d] >= 1 /\ comp_out.tote[d] >= 1
            /\ comp_out.x_tbl >= 0 /\ comp_out.x_tbl + comp_out.table[1] <= PAGE_W_PX
            /\ comp_out.x_tote >= 0 /\ comp_out.x_tote + comp_out.tote[1] <= PAGE_W_PX
            /\ comp_out.y_tbl >= 0
            /\ comp_out.y_tote = comp_out.y_tbl + comp_out.table[2] + GAP_PX
            /\ comp_out.y_tote + comp_out.tote[2] <= PAGE_H_PX

\* a route of three bags: the table is 418 high and the tote 2521, and both
\* are made smaller
C23_Witness ==
    /\ cpc = "returned"
    /\ comp_in.n = 3
    /\ comp_in.table[2] + GAP_PX + comp_in.tote[2] > 2000
    /\ comp_out.resized
    /\ comp_out.table[2] < comp_in.table[2]
    /\ comp_out.tote[2] < comp_in.tote[2]
    /\ comp_out.tote[1] < CONTENT_W_PX

\* C27: after the resize, table height + gap + tote height is at most the
\* available height, so the tote ends above the bottom margin.
C27_FitsContentArea ==
    (cpc = "returned" /\ comp_out.resized) =>
        /\ comp_out.table[2] + GAP_PX + comp_out.tote[2]
               <= PAGE_H_PX - TOP_MARGIN_PX - BOTTOM_MARGIN_PX
        /\ comp_out.y_tote + comp_out.tote[2] <= PAGE_H_PX - BOTTOM_MARGIN_PX

(***************************************************************************)
(* JobStore: one job, its worker thread and its status polls               *)
(*                                                                         *)
(* The job is in JobStore._jobs from create() on, so get() never reads the *)
(* job.json file and the file is left out.  A step of a thread is one      *)
(* access to the store under its lock together with the thread's own       *)
(* computation up to its next access.                                      *)
(***************************************************************************)
MaxPolls == 2

MaxTicks == 2

TickSeconds == 10

\* STAGE_WEIGHTS.get(stage, 0.0), in percent
StageWeight(stage) ==
    CASE stage = "parse_pdf" -> 25
      [] stage = "excel" -> 35
      [] stage = "build_html" -> 40
      [] OTHER -> 0

\* DEFAULT_STAGE_SECONDS.get(stage, other)
DefaultSeconds(stage, other) ==
    CASE stage = "parse_pdf" -> 25
      [] stage = "excel" -> 15
      [] stage = "build_html" -> 35
      [] OTHER -> other

\* ProgressEmaStore.expected(stage), as num / den seconds
ema_expected(e, stage) ==
    IF e[stage].den # 0 THEN e[stage] ELSE [num |-> DefaultSeconds(stage, 10), den |-> 1]

\* ProgressEmaStore.update(stage, observed):
\* new = alpha * observed + (1 - alpha) * old with alpha = 0.25
ema_update(e, stage, observed) ==
    IF observed <= 0 THEN e
    ELSE LET old == IF e[stage].den # 0 THEN e[stage]
                    ELSE [num |-> DefaultSeconds(stage, observed), den |-> 1]
         IN  [e EXCEPT ![stage] = [num |-> observed * old.den + 3 * old.num,
                                   den |-> 4 * old.den]]

\* max(0.0, now - float(started))
Elapsed(t, started) == IF t - started < 0 THEN 0 ELSE t - started

\* completed.append(stage) if stage not in completed and stage in STAGE_WEIGHTS
with_completed(completed, stage) ==
    IF StageWeight(stage) > 0 /\ \A k \in 1..Len(completed) : completed[k] # stage
    THEN Append(completed, stage)
    ELSE completed

\* a payload of set_progress that changes the stage
StagePayload(stage) == [stage |-> stage, last |-> None]

\* the payload {"last_reported_percent": n}
PercentPayload(n) == [stage |-> "", last |-> n]

\* set_progress closes the old stage: the stage changes and the old stage
\* has a start time
closes_stage(existing, payload) ==
    /\ payload.stage # ""
    /\ payload.stage # existing.stage
    /\ existing.stage # ""
    /\ existing.started # None

\* JobStore.set_progress: merged, at time t
merged_progress(existing, payload, t) ==
    LET stage == IF payload.stage # "" THEN payload.stage ELSE existing.stage
        changed == stage # "" /\ stage # existing.stage
    IN  [stage |-> stage,
         started |-> IF changed THEN t ELSE existing.started,
         last |-> IF payload.last # None THEN payload.last ELSE existing.last,
         completed |-> IF closes_stage(existing, payload)
                       THEN with_completed(existing.completed, existing.stage)
                       ELSE existing.completed,
         pct |-> existing.pct]

\* JobStore.set_progress: the durations after its self._ema.update
ema_progress(e, existing, payload, t) ==
    IF closes_stage(existing, payload)
    THEN ema_update(e, existing.stage, Elapsed(t, existing.started))
    ELSE e

\* JobStore.compute_progress_percent: the percent, for the job as get returns
\* it, the durations e and the time t
compute_progress_percent(job, e, t) ==
    IF job.status = "done" THEN 100
    ELSE LET pr == job.progress
             w == StageWeight(pr.stage)
             x == ema_expected(e, pr.stage)
             \* 100 * stage_weight * min(elapsed / (expected * 1.25), 0.98), cut
             part == IF pr.stage = "" \/ pr.started = None \/ w = 0 THEN 0
                     ELSE IF 10 * x.num < x.den
                     THEN (IF 8 * Elapsed(t, pr.started) >= 98 * 100 THEN (98 * w) \div 100
                           ELSE (8 * w * Elapsed(t, pr.started)) \div 100)
                     ELSE IF 400 * Elapsed(t, pr.started) * x.den >= 490 * x.num
                     THEN (98 * w) \div 100
                     ELSE (4 * w * Elapsed(t, pr.started) * x.den) \div (5 * x.num)
             total == SumSeq([k \in 1..Len(pr.completed) |-> StageWeight(pr.completed[k])])
                          + part
             last_reported == IF pr.last = None THEN 0 ELSE pr.last
             floored == IF total < last_reported THEN last_reported ELSE total
         IN  IF floored > 99 THEN 99 ELSE floored

\* JobStore.create: the payload of a new job
QueuedJob ==
    [status |-> "queued",
     progress |-> [stage |-> "queued", started |-> None, last |-> None,
                   completed |-> <<>>, pct |-> 0],
     error |-> FALSE, outputs |-> FALSE, toc |-> FALSE]

\* the progress process_job stores with status "running", at time t
RunningProgress(t) ==
    [stage |-> "parse_pdf", started |-> t, last |-> 0, completed |-> <<>>, pct |-> None]

\* the progress process_job stores with status "done"
DoneProgress ==
    [stage |-> "done", started |-> None, last |-> None, completed |-> <<>>, pct |-> 100]

\* process_job's accesses to the store, in order: the set that starts the
\* job, the reports of the three stages (one for each stage), the end of the
\* last stage and the final set; then the two of the except branch
WorkerOps ==
    <<[kind |-> "start", stage |-> ""],
      [kind |-> "report", stage |-> "parse_pdf"],
      [kind |-> "report", stage |-> "excel"],
      [kind |-> "report", stage |-> "build_html"],
      [kind |-> "complete", stage |-> ""],
      [kind |-> "finish", stage |-> ""],
      [kind |-> "fail", stage |-> ""],
      [kind |-> "report", stage |-> "error"]>>

OpOf(kind) == CHOOSE i \in 1..Len(WorkerOps) : WorkerOps[i].kind = kind

\* set_progress and complete_current_stage read the progress first; set
\* starts with its get
FirstStep(op) == IF WorkerOps[op].kind \in {"report", "complete"} THEN "read" ELSE "get"

otherVars ==
    <<assignVars, parseVars, groupVars, buildVars, tocVars, toteVars, sumVars, compVars>>

pollVars == <<qpc, p_j, p_pct, p_merged, p_payload, responses>>

workerVars == <<w_op, wpc, w_merged, w_payload, done_stored>>

\* upload: jid = store.create(); threading.Thread(target=process_job, ...).start()
JobInit ==
    /\ AssignIdle
    /\ ParseIdle
    /\ GroupIdle
    /\ BuildIdle
    /\ TocIdle
    /\ ToteIdle
    /\ SumIdle
    /\ CompIdle
    /\ jobs = QueuedJob
    /\ ema = NoEma
    /\ now = 0
    /\ w_op = 1 /\ wpc = "get" /\ w_merged = NoProgress /\ w_payload = NoJob
    /\ qpc = "start" /\ p_j = NoJob /\ p_pct = 0 /\ p_merged = NoProgress
    /\ p_payload = NoJob
    /\ responses = <<>>
    /\ done_stored = FALSE

\* time.monotonic() moves on
Tick ==
    /\ now < MaxTicks * TickSeconds
    /\ now' = now + TickSeconds
    /\ UNCHANGED <<jobs, ema, workerVars, pollVars, otherVars>>

\* the worker in set_progress: existing = self.get(jid).get("progress"), the
\* merge and self._ema.update; in complete_current_stage: progress =
\* self.get(jid).get("progress"), self._ema.update and the completed stage
\* written into that dict, which is the dict the store holds
WorkerRead ==
    /\ wpc = "read"
    /\ IF WorkerOps[w_op].kind = "report"
       THEN /\ w_merged' = merged_progress(jobs.progress, StagePayload(WorkerOps[w_op].stage), now)
            /\ ema' = ema_progress(ema, jobs.progress, StagePayload(WorkerOps[w_op].stage), now)
            /\ wpc' = "get"
            /\ UNCHANGED <<jobs, w_op>>
       ELSE IF jobs.progress.stage = "" \/ jobs.progress.started = None
       THEN /\ w_op' = w_op + 1
            /\ wpc' = FirstStep(w_op + 1)
            /\ UNCHANGED <<jobs, ema, w_merged>>
       ELSE /\ ema' = ema_update(ema, jobs.progress.stage, Elapsed(now, jobs.progress.started))
            /\ w_merged' = [stage |-> jobs.progress.stage,
                            started |-> jobs.progress.started,
                            last |-> jobs.progress.last,
                            completed |-> with_completed(jobs.progress.completed,
                                                         jobs.progress.stage),
                            pct |-> jobs.progress.pct]
            /\ jobs' = [status |-> jobs.status, progress |-> w_merged',
                        error |-> jobs.error, outputs |-> jobs.outputs, toc |-> jobs.toc]
            /\ wpc' = "get"
            /\ UNCHANGED w_op
    /\ UNCHANGED <<now, w_payload, done_stored, pollVars, otherVars>>

\* the worker in JobStore.set: payload = self.get(jid); for the first set the
\* progress handed over is made just before
WorkerGet ==
    /\ wpc = "get"
    /\ w_payload' = jobs
    /\ w_merged' = IF WorkerOps[w_op].kind = "start" THEN RunningProgress(now) ELSE w_merged
    /\ wpc' = "store"
    /\ UNCHANGED <<jobs, ema, now, w_op, done_stored, pollVars, otherVars>>

\* payload.update(patch) as the worker's set stores it
worker_payload(kind, payload, merged) ==
    CASE kind = "start" ->
             [status |-> "running", progress |-> merged, error |-> payload.error,
              outputs |-> payload.outputs, toc |-> payload.toc]
      [] kind = "finish" ->
             [status |-> "done", progress |-> DoneProgress, error |-> payload.error,
              outputs |-> TRUE, toc |-> TRUE]
      [] kind = "fail" ->
             [status |-> "error", progress |-> payload.progress, error |-> TRUE,
              outputs |-> payload.outputs, toc |-> payload.toc]
      [] OTHER ->
             [status |-> payload.status, progress |-> merged, error |-> payload.error,
              outputs |-> payload.outputs, toc |-> payload.toc]

\* the worker in JobStore.set: payload.update(patch); self._jobs[jid] = payload
WorkerStore ==
    /\ wpc = "store"
    /\ jobs' = worker_payload(WorkerOps[w_op].kind, w_payload, w_merged)
    /\ done_stored' = (done_stored \/ WorkerOps[w_op].kind = "finish")
    /\ IF WorkerOps[w_op].kind = "finish" \/ w_op = Len(WorkerOps)
       THEN wpc' = "end" /\ w_op' = w_op
       ELSE wpc' = FirstStep(w_op + 1) /\ w_op' = w_op + 1
    /\ w_merged' = NoProgress
    /\ w_payload' = NoJob
    /\ UNCHANGED <<ema, now, pollVars, otherVars>>

\* a stage raises between two reports: except Exception as e
WorkerRaise ==
    /\ wpc = "read"
    /\ w_op < OpOf("finish")
    /\ w_op' = OpOf("fail")
    /\ wpc' = "get"
    /\ UNCHANGED <<jobs, ema, now, w_merged, w_payload, done_stored, pollVars, otherVars>>

\* job_status: j = store.get(jid)
PollGet ==
    /\ qpc = "start"
    /\ Len(responses) < MaxPolls
    /\ p_j' = jobs
    /\ qpc' = "compute"
    /\ UNCHANGED <<jobs, ema, now, p_pct, p_merged, p_payload, responses, workerVars, otherVars>>

\* the answer of job_status
Response(j, pct) == [status |-> j.status, progress_percent |-> pct]

\* last_reported = progress.get("last_reported_percent") or 0
LastReported(j) == IF j.progress.last = None THEN 0 ELSE j.progress.last

\* job_status: store.compute_progress_percent(jid), which gets the job again;
\* without a higher percent to record the poll answers
PollCompute ==
    /\ qpc = "compute"
    /\ LET pct == compute_progress_percent(jobs, ema, now)
       IN  IF pct > LastReported(p_j) /\ p_j.status # "done"
           THEN /\ qpc' = "read"
                /\ p_pct' = pct
                /\ UNCHANGED <<p_j, responses>>
           ELSE /\ qpc' = "start"
                /\ responses' = Append(responses, Response(p_j, pct))
                /\ p_pct' = 0
                /\ p_j' = NoJob
    /\ UNCHANGED <<jobs, ema, now, p_merged, p_payload, workerVars, otherVars>>

\* the poll in set_progress: existing = self.get(jid).get("progress") and the
\* merge of {"last_reported_percent": progress_percent}
PollRead ==
    /\ qpc = "read"
    /\ p_merged' = merged_progress(jobs.progress, PercentPayload(p_pct), now)
    /\ qpc' = "get"
    /\ UNCHANGED <<jobs, ema, now, p_j, p_pct, p_payload, responses, workerVars, otherVars>>

\* the poll in JobStore.set: payload = self.get(jid)
PollSetGet ==
    /\ qpc = "get"
    /\ p_payload' = jobs
    /\ qpc' = "store"
    /\ UNCHANGED <<jobs, ema, now, p_j, p_pct, p_merged, responses, workerVars, otherVars>>

\* the poll in JobStore.set: payload.update(progress=merged);
\* self._jobs[jid] = payload; then job_status answers
PollStore ==
    /\ qpc = "store"
    /\ jobs' = [status |-> p_payload.status, progress |-> p_merged, error |-> p_payload.error,
                outputs |-> p_payload.outputs, toc |-> p_payload.toc]
    /\ responses' = Append(responses, Response(p_j, p_pct))
    /\ qpc' = "start"
    /\ p_j' = NoJob /\ p_pct' = 0 /\ p_merged' = NoProgress /\ p_payload' = NoJob
    /\ UNCHANGED <<ema, now, workerVars, otherVars>>

JobNext ==
    \/ Tick
    \/ WorkerRead
    \/ WorkerGet
    \/ WorkerStore
    \/ WorkerRaise
    \/ PollGet
    \/ PollCompute
    \/ PollRead
    \/ PollSetGet
    \/ PollStore

SpecJob == JobInit /\ [][JobNext]_vars

\* C29: once process_job has stored status "done", every later
\* JobStore.get of the job returns status "done", whatever the polls do.
C29_DoneIsAbsorbing ==
    done_stored => jobs.status = "done"

\* C30: the progress_percent of successive polls never decreases, is at most
\* 99 in an answer whose status is not "done", and is 100 exactly in the
\* answers whose status is "done".
C30_PercentOfPolls ==
    /\ \A k \in 1..Len(responses) :
           /\ responses[k].status # "done" => responses[k].progress_percent <= 99
           /\ responses[k].progress_percent = 100 <=> responses[k].status = "done"
    /\ \A k \in 1..(Len(responses) - 1) :
           responses[k].progress_percent <= responses[k + 1].progress_percent

====
